---- MODULE Spec2Model ----
(***************************************************************************)
(* A model of the cursor-claude-connector proxy: the Anthropic -> OpenAI   *)
(* stream translator (anthropic-to-openai-converter.ts), the thinking-     *)
(* block cache (thinking-cache.ts) and the request pipeline (messagesFn in *)
(* server.ts, kept here as src/unnamed/part_000).                          *)
(*                                                                         *)
(* Strings are sequences of one-character strings, so that prefix tests,   *)
(* concatenation, whitespace normalisation and the 32-bit hash are         *)
(* computed as the code computes them.                                     *)
(***************************************************************************)
EXTENDS Integers, Sequences, FiniteSets, TLC

VARIABLES
    \* ---- stream translator (one upstream response) ----
    originalModel,   \* the client's model string given to createConverterState
    state,           \* the ConverterState of the response being translated
    wire,            \* raw SSE tokens sent by the upstream and not yet read
    consumed,        \* every raw token the reader has read so far, in order
    out,             \* every ProcessResult written to the client, in order
    upstream,        \* position of the upstream in the Messages stream protocol
    sentEvents,      \* the events whose complete line the upstream has sent
    pc,              \* position of the stream callback / of the pipeline
    transformToOpenAIFormat, \* messagesFn's flag: translate, or pass through
    \* ---- thinking cache ----
    memoryCache,     \* thinking-cache.ts memoryCache: key -> {thinkingBlock, timestamp}
    redisStore,      \* persistent tier: key -> {thinkingBlock, timestamp}
    redisConfigured, \* getRedis() returns a client
    now,             \* Date.now()
    \* ---- request pipeline ----
    request,         \* the inbound request being handled
    outcome,         \* what messagesFn answered or dispatched for it
    nRequests,       \* requests handled so far
    lastResponse,    \* the upstream response streamed for the previous request
    API_KEY,         \* process.env.API_KEY (the empty string when not set)
    \* ---- cache key laws ----
    kContent,        \* a message content
    kKey,            \* generateCacheKey of the content kKey was computed from
    \* ---- OAuth manager ----
    storage,         \* the credential store: Redis, or the file .auth_data.json
    calls,           \* the getAccessToken calls in flight, each at one of its awaits
    issued,          \* answers the token endpoint has given with new tokens
    \* ---- model resolution ----
    clientModel,     \* a model string as a client spells it
    resolved,        \* resolveModelVariant of the string resolved was computed from
    \* ---- uses of the thinking cache ----
    cacheUses        \* the writes and the lookups made of the cache, in order

vars == <<originalModel, state, wire, consumed, out, upstream, sentEvents, pc,
          transformToOpenAIFormat, memoryCache, redisStore, redisConfigured, now,
          request, outcome, nRequests, lastResponse, API_KEY, kContent, kKey,
          storage, calls, issued, clientModel, resolved, cacheUses>>

streamVars == <<originalModel, state, wire, consumed, out, upstream, sentEvents,
                transformToOpenAIFormat>>
cacheVars == <<memoryCache, redisStore, redisConfigured, now>>
pipeVars == <<request, outcome, nRequests, lastResponse, API_KEY>>
keyVars == <<kContent, kKey>>
authVars == <<storage, calls, issued>>
resolverVars == <<clientModel, resolved>>

None == "none"

-----------------------------------------------------------------------------
(* Strings                                                                 *)

Range(s) == {s[i] : i \in 1..Len(s)}

\* String.prototype.startsWith
StartsWith(s, p) == Len(p) <= Len(s) /\ SubSeq(s, 1, Len(p)) = p

\* String.prototype.substring(n)
Substring(s, n) == SubSeq(s, n + 1, Len(s))

RECURSIVE Concat(_)
\* the concatenation of a sequence of strings
Concat(ss) == IF ss = <<>> THEN <<>> ELSE Head(ss) \o Concat(Tail(ss))

RECURSIVE Join(_, _)
\* Array.prototype.join
Join(parts, sep) ==
    IF parts = <<>> THEN <<>>
    ELSE IF Len(parts) = 1 THEN parts[1]
    ELSE parts[1] \o sep \o Join(Tail(parts), sep)

\* the printable ASCII characters, in code order from 32
Ascii ==
    <<" ", "!", "\"", "#", "$", "%", "&", "'", "(", ")", "*", "+", ",", "-", ".", "/",
      "0", "1", "2", "3", "4", "5", "6", "7", "8", "9", ":", ";", "<", "=", ">", "?",
      "@", "A", "B", "C", "D", "E", "F", "G", "H", "I", "J", "K", "L", "M", "N", "O",
      "P", "Q", "R", "S", "T", "U", "V", "W", "X", "Y", "Z", "[", "\\", "]", "^", "_",
      "grave", "a", "b", "c", "d", "e", "f", "g", "h", "i", "j", "k", "l", "m", "n", "o",
      "p", "q", "r", "s", "t", "u", "v", "w", "x", "y", "z", "{", "|", "}", "~">>

\* the character codes: those of the printable characters, and of the
\* newline, the tab and the carriage return
CharCodes ==
    [c \in {Ascii[i] : i \in 1..Len(Ascii)} \cup {"\n", "\t", "\r"} |->
        IF c = "\n" THEN 10
        ELSE IF c = "\t" THEN 9
        ELSE IF c = "\r" THEN 13
        ELSE 31 + (CHOOSE i \in 1..Len(Ascii) : Ascii[i] = c)]

\* String.prototype.charCodeAt for one character
CharCode(c) == CharCodes[c]

\* the characters the regular expression \s matches
IsSpace(c) == c \in {" ", "\n", "\t", "\r"}

\* a character that replace(/\s+/g, ' ') leaves in the string
IsKept(m) == m.keep

\* replace(/\s+/g, ' '): of a run of whitespace the last character stays, as
\* one space
CollapseSpaces(s) ==
    LET marked == [i \in 1..Len(s) |->
                     [c |-> IF IsSpace(s[i]) THEN " " ELSE s[i],
                      keep |-> ~IsSpace(s[i]) \/ i = Len(s) \/ ~IsSpace(s[i + 1])]]
        kept == SelectSeq(marked, IsKept)
    IN [i \in 1..Len(kept) |-> kept[i].c]

RECURSIVE TrimLeft(_)
TrimLeft(s) == IF s # <<>> /\ IsSpace(s[1]) THEN TrimLeft(Tail(s)) ELSE s

RECURSIVE TrimRight(_)
TrimRight(s) ==
    IF s # <<>> /\ IsSpace(s[Len(s)]) THEN TrimRight(SubSeq(s, 1, Len(s) - 1)) ELSE s

\* String.prototype.trim
Trim(s) == TrimRight(TrimLeft(s))

-----------------------------------------------------------------------------
(* Content blocks and messages (thinking-cache.ts)                         *)

\* a block of every type has the same fields; the ones its type does not use
\* are empty.  input is the ordered list of the object's <<key, value>>
\* pairs (values are JSON scalars already rendered); an absent input is the
\* empty list, which the code renders as it renders the empty object.
Block(type) ==
    [type |-> type, text |-> <<>>, thinking |-> <<>>, signature |-> <<>>,
     id |-> <<>>, name |-> <<>>, input |-> <<>>, tool_use_id |-> <<>>,
     content |-> <<>>]

TextBlock(t) == [Block("text") EXCEPT !.text = t]
ThinkingBlock(th, sig) == [Block("thinking") EXCEPT !.thinking = th, !.signature = sig]
RedactedThinkingBlock == Block("redacted_thinking")
\* null where a block is expected: reading a property of it throws
NullBlock == Block("null")
ToolUseBlock(id, name, input) ==
    [Block("tool_use") EXCEPT !.id = id, !.name = name, !.input = input]
ToolResultBlock(id, c) == [Block("tool_result") EXCEPT !.tool_use_id = id, !.content = c]

IsThinkingType(b) == b.type = "thinking" \/ b.type = "redacted_thinking"

\* message content: a string or an array of blocks
StringContent(s) == [isString |-> TRUE, str |-> s, blocks |-> <<>>]
ArrayContent(bs) == [isString |-> FALSE, str |-> <<>>, blocks |-> bs]

Message(role, content) == [role |-> role, content |-> content]

-----------------------------------------------------------------------------
(* generateCacheKey                                                        *)

RECURSIVE StrLeq(_, _)
\* the order Array.prototype.sort gives strings: by character codes
StrLeq(a, b) ==
    IF a = <<>> THEN TRUE
    ELSE IF b = <<>> THEN FALSE
    ELSE IF a[1] = b[1] THEN StrLeq(Tail(a), Tail(b))
    ELSE CharCode(a[1]) < CharCode(b[1])

RECURSIVE SortKeys(_)
\* Object.keys(input).sort()
SortKeys(ks) ==
    IF ks = {} THEN <<>>
    ELSE LET m == CHOOSE k \in ks : \A o \in ks : StrLeq(k, o)
         IN <<m>> \o SortKeys(ks \ {m})

KeysOf(input) == {input[i][1] : i \in 1..Len(input)}
ValueOf(input, k) == input[CHOOSE i \in 1..Len(input) : input[i][1] = k][2]

RECURSIVE Members(_, _)
\* the "k":v members of the object, in the order of the replacer array
Members(input, ks) ==
    IF ks = <<>> THEN <<>>
    ELSE <<(<<"\"">> \o Head(ks) \o <<"\"", ":">> \o ValueOf(input, Head(ks)))>>
         \o Members(input, Tail(ks))

\* block.input ? JSON.stringify(input, Object.keys(input).sort()) : '{}'
\* for a flat object (an absent input and the empty object both give {})
StableStringify(input) ==
    <<"{">> \o Join(Members(input, SortKeys(KeysOf(input))), <<",">>) \o <<"}">>

RECURSIVE KeyPartsKeepThinking(_)
\* KeyParts with thinking blocks contributing their thinking text
KeyPartsKeepThinking(blocks) ==
    IF blocks = <<>> THEN <<>>
    ELSE LET b == Head(blocks)
             rest == KeyPartsKeepThinking(Tail(blocks))
         IN IF IsThinkingType(b) THEN <<b.thinking>> \o rest
            ELSE IF b.type = "text" THEN <<b.text>> \o rest
            ELSE IF b.type = "tool_use"
                 THEN <<(<<"t", "o", "o", "l", ":">> \o b.name \o <<":">>
                         \o StableStringify(b.input))>> \o rest
            ELSE IF b.type = "tool_result"
                 THEN <<(<<"r", "e", "s", "u", "l", "t", ":">> \o b.tool_use_id
                         \o <<":">> \o b.content)>> \o rest
            ELSE rest

RECURSIVE KeyParts(_)
\* the parts pushed by the loop over the blocks
KeyParts(blocks) ==
    IF blocks = <<>> THEN <<>>
    ELSE LET b == Head(blocks)
             rest == KeyParts(Tail(blocks))
         IN IF IsThinkingType(b) THEN rest
            ELSE IF b.type = "text" THEN <<b.text>> \o rest
            ELSE IF b.type = "tool_use"
                 THEN <<(<<"t", "o", "o", "l", ":">> \o b.name \o <<":">>
                         \o StableStringify(b.input))>> \o rest
            ELSE IF b.type = "tool_result"
                 THEN <<(<<"r", "e", "s", "u", "l", "t", ":">> \o b.tool_use_id
                         \o <<":">> \o b.content)>> \o rest
            ELSE rest

TwoTo16 == 65536

\* hash = (hash << 5) - hash + char; hash = hash & hash, for one character:
\* the 32-bit value is kept as two 16-bit halves <<hi, lo>>
HashStep(hi, lo, char) ==
    LET lo1 == lo * 31 + char
        hi1 == hi * 31 + (lo1 \div TwoTo16)
    IN <<hi1 % TwoTo16, lo1 % TwoTo16>>

RECURSIVE HashFrom(_, _)
\* the loop over the characters of s, from the hash h: the characters of the
\* first half of s, then, from the hash they leave, those of the second
HashFrom(h, s) ==
    IF s = <<>> THEN h
    ELSE IF Len(s) = 1 THEN HashStep(h[1], h[2], CharCode(s[1]))
    ELSE CHOOSE hash \in { HashFrom(half, SubSeq(s, Len(s) \div 2 + 1, Len(s))) :
                             half \in {HashFrom(h, SubSeq(s, 1, Len(s) \div 2))} } : TRUE

\* Math.abs of the signed 32-bit value <<hi, lo>>
AbsHash(h) ==
    IF h[1] < 32768 THEN h
    ELSE IF h[2] = 0 THEN <<TwoTo16 - h[1], 0>>
    ELSE <<TwoTo16 - 1 - h[1], TwoTo16 - h[2]>>

\* `v2:${Math.abs(hash)}:${normalized.length}`
KeyOfNormalized(normalized) ==
    [v |-> "v2", hash |-> AbsHash(HashFrom(<<0, 0>>, normalized)),
     length |-> Len(normalized)]

\* generateCacheKey(content): textContent, then normalized, then the key of it
generateCacheKey(content) ==
    CHOOSE key \in
        { KeyOfNormalized(normalized) :
            normalized \in
              { Trim(CollapseSpaces(textContent)) :
                  textContent \in
                    { IF content.isString THEN content.str
                      ELSE Join(KeyParts(content.blocks), <<"|">>) } } } : TRUE

-----------------------------------------------------------------------------
(* Upstream stream events and the raw SSE tokens that carry them           *)

\* an AnthropicStreamEvent: every event has the same fields, the ones it
\* does not carry being empty (a string), 0 (a token count) or None.
\* cb_* is content_block, d_* is delta, m_* is message, u_* is usage and
\* mu_* is message.usage.
Ev(type) ==
    [type |-> type, index |-> 0, model |-> <<>>, stop_reason |-> <<>>,
     signature |-> <<>>,
     cb_type |-> None, cb_id |-> <<>>, cb_name |-> <<>>, cb_thinking |-> <<>>,
     cb_signature |-> <<>>,
     d_text |-> <<>>, d_partial_json |-> <<>>, d_thinking |-> <<>>,
     d_signature |-> <<>>, d_stop_reason |-> <<>>,
     has_message |-> FALSE, has_m_usage |-> FALSE, m_id |-> <<>>, m_model |-> <<>>, m_stop_reason |-> <<>>,
     u_input |-> 0, u_output |-> 0, u_cache_creation |-> 0, u_cache_read |-> 0,
     mu_input |-> 0, mu_output |-> 0, mu_cache_creation |-> 0, mu_cache_read |-> 0]

\* A raw token of the byte stream: a newline, a carriage return, the text of
\* an "event: ..." line, or one of the two halves of a "data: {...}" line
\* (half 1 holds the prefix "data: " and the opening brace).  A chunk
\* boundary may fall between any two tokens.
Tok(t, ev, half) == [t |-> t, ev |-> ev, half |-> half]
NL == Tok("nl", Ev(None), 0)
CR == Tok("cr", Ev(None), 0)
EventLine == Tok("event", Ev(None), 0)
Data1(e) == Tok("data", e, 1)
Data2(e) == Tok("data", e, 2)

IsSpaceTok(k) == k.t = "nl" \/ k.t = "cr"

RECURSIVE TrimLeftToks(_)
TrimLeftToks(l) == IF l # <<>> /\ IsSpaceTok(l[1]) THEN TrimLeftToks(Tail(l)) ELSE l

RECURSIVE TrimRightToks(_)
TrimRightToks(l) ==
    IF l # <<>> /\ IsSpaceTok(l[Len(l)])
    THEN TrimRightToks(SubSeq(l, 1, Len(l) - 1)) ELSE l

\* line.trim()
TrimLine(l) == TrimRightToks(TrimLeftToks(l))

RECURSIVE SplitLines(_, _)
\* fullContent.split('\n'): cur is the line being collected
SplitLines(toks, cur) ==
    IF toks = <<>> THEN <<cur>>
    ELSE IF toks[1].t = "nl" THEN <<cur>> \o SplitLines(Tail(toks), <<>>)
    ELSE SplitLines(Tail(toks), Append(cur, toks[1]))

\* trimmedLine.startsWith('data: ') && trimmedLine.includes('{')
IsDataLine(l) == l # <<>> /\ l[1].t = "data" /\ l[1].half = 1

\* JSON.parse succeeds exactly on the two halves of one event
ParseOk(l) == Len(l) = 2 /\ l[2].t = "data" /\ l[2].half = 2 /\ l[2].ev = l[1].ev

-----------------------------------------------------------------------------
(* ConverterState                                                          *)

NoThinking == [present |-> FALSE, thinking |-> <<>>, signature |-> <<>>]

\* createConverterState(originalModel); a null string is the empty string
createConverterState(model) ==
    [toolCallsTracker |-> <<>>,
     metricsData |-> [model |-> model, stop_reason |-> <<>>, input_tokens |-> 0,
                      cache_creation_input_tokens |-> 0,
                      cache_read_input_tokens |-> 0, output_tokens |-> 0,
                      messageId |-> <<>>, openAIId |-> <<>>],
     lineBuffer |-> <<>>,
     thinkingBlock |-> NoThinking,
     accumulatedText |-> <<>>,
     inThinkingBlock |-> FALSE,
     originalModel |-> model]

\* getThinkingBlockFromState giving the block without its signature
getThinkingBlockUnsigned(st) ==
    IF st.thinkingBlock.present
       /\ (st.thinkingBlock.thinking # <<>> \/ st.thinkingBlock.signature # <<>>)
    THEN [present |-> TRUE, block |-> ThinkingBlock(st.thinkingBlock.thinking, <<>>)]
    ELSE [present |-> FALSE, block |-> ThinkingBlock(<<>>, <<>>)]

\* getThinkingBlockFromState giving a block that was started, empty or not
getThinkingBlockEvenEmpty(st) ==
    IF st.thinkingBlock.present
    THEN [present |-> TRUE,
          block |-> ThinkingBlock(st.thinkingBlock.thinking, st.thinkingBlock.signature)]
    ELSE [present |-> FALSE, block |-> ThinkingBlock(<<>>, <<>>)]

\* getThinkingBlockFromState: the captured block, present = FALSE for null
getThinkingBlockFromState(st) ==
    IF st.thinkingBlock.present
       /\ (st.thinkingBlock.thinking # <<>> \/ st.thinkingBlock.signature # <<>>)
    THEN [present |-> TRUE,
          block |-> ThinkingBlock(st.thinkingBlock.thinking, st.thinkingBlock.signature)]
    ELSE [present |-> FALSE, block |-> ThinkingBlock(<<>>, <<>>)]

getAccumulatedText(st) == st.accumulatedText

\* a || b for strings
OrElse(a, b) == IF a # <<>> THEN a ELSE b

\* updateMetrics counting the usage of message_start only
updateMetricsStartOnly(m, data) ==
    LET m1 == IF data.type = "message_start" /\ data.has_message
              THEN [m EXCEPT !.messageId = data.m_id,
                             !.model = OrElse(data.m_model, m.model)]
              ELSE m
        m2 == [m1 EXCEPT !.model = OrElse(data.model, m1.model)]
        m3 == [m2 EXCEPT !.stop_reason = OrElse(data.stop_reason, m2.stop_reason)]
        m4 == IF data.type = "message_delta"
              THEN [m3 EXCEPT !.stop_reason = OrElse(data.d_stop_reason, m3.stop_reason)]
              ELSE m3
        m6 == IF data.has_message /\ data.has_m_usage
              THEN [m4 EXCEPT !.model = OrElse(data.m_model, m4.model),
                              !.input_tokens = @ + data.mu_input,
                              !.output_tokens = @ + data.mu_output,
                              !.cache_creation_input_tokens = @ + data.mu_cache_creation,
                              !.cache_read_input_tokens = @ + data.mu_cache_read]
              ELSE m4
    IN IF data.has_message
       THEN [m6 EXCEPT !.stop_reason = OrElse(data.m_stop_reason, m6.stop_reason)]
       ELSE m6

\* updateMetrics(metricsData, data)
updateMetrics(m, data) ==
    LET m1 == IF data.type = "message_start" /\ data.has_message
              THEN [m EXCEPT !.messageId = data.m_id,
                             !.model = OrElse(data.m_model, m.model)]
              ELSE m
        m2 == [m1 EXCEPT !.model = OrElse(data.model, m1.model)]
        m3 == [m2 EXCEPT !.stop_reason = OrElse(data.stop_reason, m2.stop_reason)]
        m4 == IF data.type = "message_delta"
              THEN [m3 EXCEPT !.stop_reason = OrElse(data.d_stop_reason, m3.stop_reason)]
              ELSE m3
        m5 == [m4 EXCEPT !.input_tokens = @ + data.u_input,
                         !.output_tokens = @ + data.u_output,
                         !.cache_creation_input_tokens = @ + data.u_cache_creation,
                         !.cache_read_input_tokens = @ + data.u_cache_read]
        m6 == IF data.has_message /\ data.has_m_usage
              THEN [m5 EXCEPT !.model = OrElse(data.m_model, m5.model),
                              !.input_tokens = @ + data.mu_input,
                              !.output_tokens = @ + data.mu_output,
                              !.cache_creation_input_tokens = @ + data.mu_cache_creation,
                              !.cache_read_input_tokens = @ + data.mu_cache_read]
              ELSE m5
    IN IF data.has_message
       THEN [m6 EXCEPT !.stop_reason = OrElse(data.m_stop_reason, m6.stop_reason)]
       ELSE m6

-----------------------------------------------------------------------------
(* Outgoing results                                                        *)

NoUsage == [prompt_tokens |-> 0, completion_tokens |-> 0, total_tokens |-> 0,
            cached_tokens |-> 0, reasoning_tokens |-> 0]

\* a ProcessResult of type 'chunk': the OpenAIStreamChunk without its created
\* timestamp.  delta is one of "role", "tool_start", "tool_args", "content",
\* "empty"; the fields the delta does not carry are empty.
Chunk(id, model, delta) ==
    [type |-> "chunk", id |-> id, model |-> model, delta |-> delta,
     role |-> None, content |-> <<>>,
     tool_index |-> -1, tool_id |-> <<>>, tool_name |-> <<>>, arguments |-> <<>>,
     finish_reason |-> <<>>, has_usage |-> FALSE, usage |-> NoUsage, raw |-> <<>>]

\* the ProcessResult of type 'done'
DoneResult == [Chunk(<<>>, <<>>, None) EXCEPT !.type = "done"]

\* a chunk of the upstream payload written through untranslated
RawResult(toks) == [Chunk(<<>>, <<>>, None) EXCEPT !.type = "raw", !.raw = toks]

\* 'chatcmpl-' + Date.now(), the id used before any message_start was seen
ChatIdNow == <<"chatcmpl-", "Date.now()">>

RECURSIVE RemoveFirst(_, _)
\* id.replace('msg_', ''): ids are sequences of pieces, "msg_" being one piece
RemoveFirst(id, piece) ==
    IF id = <<>> THEN <<>>
    ELSE IF id[1] = piece THEN Tail(id)
    ELSE <<id[1]>> \o RemoveFirst(Tail(id), piece)

\* state.metricsData.openAIId || 'chatcmpl-' + Date.now()
ChunkId(st) == OrElse(st.metricsData.openAIId, ChatIdNow)

\* ChunkModel preferring the model the upstream reported
ChunkModelUpstream(st) ==
    OrElse(st.metricsData.model, OrElse(st.originalModel, <<"claude", "unknown">>))

\* state.originalModel || state.metricsData.model || 'claude-unknown'
ChunkModel(st) ==
    OrElse(st.originalModel, OrElse(st.metricsData.model, <<"claude", "unknown">>))

\* MapStopReason passing tool_use through
MapStopReasonToolUse(r) ==
    IF r = <<"end_turn">> THEN <<"stop">> ELSE r

\* finish_reason of the message_delta branch of transformToOpenAI
MapStopReason(r) ==
    IF r = <<"end_turn">> THEN <<"stop">>
    ELSE IF r = <<"tool_use">> THEN <<"tool_calls">>
    ELSE r

\* createUsageChunk(state): present = FALSE for null
createUsageChunk(st) ==
    IF st.metricsData.input_tokens = 0 /\ st.metricsData.output_tokens = 0
    THEN [present |-> FALSE, chunk |-> DoneResult]
    ELSE [present |-> TRUE,
          chunk |-> [Chunk(ChunkId(st), ChunkModel(st), "empty") EXCEPT
                       !.has_usage = TRUE,
                       !.usage = [prompt_tokens |-> st.metricsData.input_tokens,
                                  completion_tokens |-> st.metricsData.output_tokens,
                                  total_tokens |-> st.metricsData.input_tokens
                                                   + st.metricsData.output_tokens,
                                  cached_tokens |-> st.metricsData.cache_read_input_tokens,
                                  reasoning_tokens |-> 0]]]

\* ToolArgsDelta emitting a cumulative fragment whole instead of its suffix
ToolArgsDeltaWhole(toolCall, partial_json) ==
    IF toolCall.arguments # <<>> /\ StartsWith(partial_json, toolCall.arguments)
    THEN [newPart |-> partial_json, arguments |-> partial_json]
    ELSE [newPart |-> partial_json,
          arguments |-> toolCall.arguments \o partial_json]

\* ToolArgsDelta taking every fragment for a delta
ToolArgsDeltaAppend(toolCall, partial_json) ==
    [newPart |-> partial_json, arguments |-> toolCall.arguments \o partial_json]

\* the partial_json branch of transformToOpenAI for a tracked tool call
ToolArgsDelta(toolCall, partial_json) ==
    IF toolCall.arguments # <<>> /\ StartsWith(partial_json, toolCall.arguments)
    THEN [newPart |-> Substring(partial_json, Len(toolCall.arguments)),
          arguments |-> partial_json]
    ELSE [newPart |-> partial_json,
          arguments |-> toolCall.arguments \o partial_json]

\* transformToOpenAI(state, data): the state it leaves and the chunk it
\* returns (present = FALSE for null)
transformToOpenAI(st, data) ==
    LET none == [state |-> st, present |-> FALSE, chunk |-> DoneResult]
    IN
    IF data.type = "message_start" /\ data.has_message THEN
        LET openAIId == <<"chatcmpl-">> \o RemoveFirst(data.m_id, "msg_")
            st1 == [st EXCEPT !.metricsData.openAIId = openAIId,
                              !.metricsData.model =
                                  IF st.originalModel = <<>> THEN data.m_model ELSE @]
        IN [state |-> st1, present |-> TRUE,
            chunk |-> [Chunk(openAIId, OrElse(st.originalModel, data.m_model), "role")
                         EXCEPT !.role = "assistant"]]
    ELSE IF data.type = "content_block_start" /\ data.cb_type = "tool_use" THEN
        LET st1 == [st EXCEPT !.toolCallsTracker =
                       (data.index :> [id |-> data.cb_id, name |-> data.cb_name,
                                       arguments |-> <<>>]) @@ @]
        IN [state |-> st1, present |-> TRUE,
            chunk |-> [Chunk(ChunkId(st), ChunkModel(st), "tool_start") EXCEPT
                         !.tool_index = data.index, !.tool_id = data.cb_id,
                         !.tool_name = data.cb_name]]
    ELSE IF data.type = "content_block_delta" /\ data.d_partial_json # <<>> THEN
        IF data.index \in DOMAIN st.toolCallsTracker
        THEN LET r == ToolArgsDelta(st.toolCallsTracker[data.index], data.d_partial_json)
                 st1 == [st EXCEPT !.toolCallsTracker[data.index].arguments = r.arguments]
             IN [state |-> st1, present |-> TRUE,
                 chunk |-> [Chunk(ChunkId(st), ChunkModel(st), "tool_args") EXCEPT
                              !.tool_index = data.index, !.arguments = r.newPart]]
        ELSE none
    ELSE IF data.type = "content_block_delta" /\ data.d_text # <<>> THEN
        [state |-> [st EXCEPT !.accumulatedText = @ \o data.d_text],
         present |-> TRUE,
         chunk |-> [Chunk(ChunkId(st), ChunkModel(st), "content") EXCEPT
                      !.content = data.d_text]]
    ELSE IF data.type = "message_delta" /\ data.d_stop_reason # <<>> THEN
        [state |-> st, present |-> TRUE,
         chunk |-> [Chunk(ChunkId(st), ChunkModel(st), "empty") EXCEPT
                      !.finish_reason = MapStopReason(data.d_stop_reason)]]
    ELSE none

\* HandleEvent writing the text of a thinking delta to the client as content
HandleEventThinkingAsContent(st, data) ==
    LET st1 == [st EXCEPT !.metricsData = updateMetrics(st.metricsData, data)]
        t == transformToOpenAI(st1, IF data.d_thinking # <<>>
                                    THEN [data EXCEPT !.d_text = data.d_thinking]
                                    ELSE data)
        r1 == IF t.present THEN <<t.chunk>> ELSE <<>>
        u == createUsageChunk(t.state)
    IN IF data.type = "message_stop"
       THEN [state |-> t.state,
             results |-> r1 \o (IF u.present THEN <<u.chunk>> ELSE <<>>)
                            \o <<DoneResult>>]
       ELSE [state |-> t.state, results |-> r1]

\* HandleEvent with the done marker pushed as soon as a stop_reason arrives
HandleEventDoneOnDelta(st, data) ==
    LET st1 == [st EXCEPT !.metricsData = updateMetrics(st.metricsData, data)]
        t == transformToOpenAI(st1, data)
        r1 == IF t.present THEN <<t.chunk>> ELSE <<>>
    IN IF data.type = "message_delta"
       THEN [state |-> t.state, results |-> r1 \o <<DoneResult>>]
       ELSE [state |-> t.state, results |-> r1]

\* the body of the try block of processChunk for one parsed event: the state
\* it leaves and the results it pushes
HandleEvent(st, data) ==
    IF data.type = "ping" THEN [state |-> st, results |-> <<>>]
    ELSE IF data.type = "content_block_start"
            /\ (data.cb_type = "thinking" \/ data.cb_type = "redacted_thinking")
    THEN [state |-> [st EXCEPT !.inThinkingBlock = TRUE,
                               !.thinkingBlock = [present |-> TRUE,
                                                  thinking |-> data.cb_thinking,
                                                  signature |-> data.cb_signature]],
          results |-> <<>>]
    ELSE IF data.type = "content_block_delta" /\ data.d_thinking # <<>>
    THEN [state |-> IF st.thinkingBlock.present
                    THEN [st EXCEPT !.thinkingBlock.thinking = @ \o data.d_thinking]
                    ELSE st,
          results |-> <<>>]
    ELSE IF data.type = "content_block_delta" /\ data.d_signature # <<>>
    THEN [state |-> IF st.thinkingBlock.present
                    THEN [st EXCEPT !.thinkingBlock.signature = @ \o data.d_signature]
                    ELSE st,
          results |-> <<>>]
    ELSE IF data.type = "content_block_stop"
    THEN [state |-> [(IF st.inThinkingBlock /\ data.signature # <<>>
                         /\ st.thinkingBlock.present
                      THEN [st EXCEPT !.thinkingBlock.signature = data.signature]
                      ELSE st) EXCEPT !.inThinkingBlock = FALSE],
          results |-> <<>>]
    ELSE IF data.type = "content_block_start" /\ data.cb_type = "text"
    THEN [state |-> st, results |-> <<>>]
    ELSE
        LET st1 == [st EXCEPT !.metricsData = updateMetrics(st.metricsData, data)]
            t == transformToOpenAI(st1, data)
            r1 == IF t.present THEN <<t.chunk>> ELSE <<>>
            u == createUsageChunk(t.state)
        IN IF data.type = "message_stop"
           THEN [state |-> t.state,
                 results |-> r1 \o (IF u.present THEN <<u.chunk>> ELSE <<>>)
                                \o <<DoneResult>>]
           ELSE [state |-> t.state, results |-> r1]

\* one iteration of the loop over the lines
ProcessLine(st, line) ==
    LET trimmedLine == TrimLine(line)
    IN IF trimmedLine = <<>> THEN [state |-> st, results |-> <<>>]
       ELSE IF trimmedLine[1].t = "event" THEN [state |-> st, results |-> <<>>]
       ELSE IF IsDataLine(trimmedLine)
            THEN IF ParseOk(trimmedLine)
                 THEN HandleEvent(st, trimmedLine[1].ev)
                 ELSE [state |-> st, results |-> <<>>]
            ELSE [state |-> st, results |-> <<>>]

RECURSIVE ProcessLines(_, _, _)
ProcessLines(st, lines, results) ==
    IF lines = <<>> THEN [state |-> st, results |-> results]
    ELSE CHOOSE rest \in { ProcessLines(r.state, Tail(lines), results \o r.results) :
                             r \in { ProcessLine(st, Head(lines)) } } : TRUE

\* BufferLines without the line buffer: the trailing fragment is parsed at once
BufferLinesUnbuffered(fullContent) ==
    [lines |-> SplitLines(fullContent, <<>>), lineBuffer |-> <<>>]

\* the lines processChunk parses and the fragment it keeps in lineBuffer
BufferLines(fullContent) ==
    LET lines == SplitLines(fullContent, <<>>)
    IN IF fullContent # <<>> /\ fullContent[Len(fullContent)].t = "nl"
       THEN [lines |-> lines, lineBuffer |-> <<>>]
       ELSE [lines |-> SubSeq(lines, 1, Len(lines) - 1), lineBuffer |-> lines[Len(lines)]]

\* processChunk(state, chunk): the state it leaves and the results it returns
processChunk(st, chunk) ==
    LET b == BufferLines(st.lineBuffer \o chunk)
    IN ProcessLines([st EXCEPT !.lineBuffer = b.lineBuffer], b.lines, <<>>)

-----------------------------------------------------------------------------
(* convertNonStreamingResponse                                             *)

\* an AnthropicFullResponse; usage is absent when has_usage is FALSE
FullResponse(id, model, content, stop_reason, input_tokens, output_tokens, cache_read) ==
    [id |-> id, model |-> model, content |-> content, stop_reason |-> stop_reason,
     has_usage |-> TRUE, input_tokens |-> input_tokens,
     output_tokens |-> output_tokens, cache_read_input_tokens |-> cache_read]

RECURSIVE MembersInOrder(_)
\* the "k":v members of the object in the order of its own keys
MembersInOrder(input) ==
    IF input = <<>> THEN <<>>
    ELSE <<(<<"\"">> \o input[1][1] \o <<"\"", ":">> \o input[1][2])>>
         \o MembersInOrder(Tail(input))

\* JSON.stringify(block.input || {}) for a flat object
Stringify(input) == <<"{">> \o Join(MembersInOrder(input), <<",">>) \o <<"}">>

RECURSIVE TextOfWithThinking(_)
\* TextOf taking the text of the thinking blocks too
TextOfWithThinking(blocks) ==
    IF blocks = <<>> THEN <<>>
    ELSE (IF Head(blocks).type = "text" THEN Head(blocks).text
          ELSE Head(blocks).thinking)
         \o TextOfWithThinking(Tail(blocks))

RECURSIVE TextOf(_)
\* textContent after the loop over the content blocks
TextOf(blocks) ==
    IF blocks = <<>> THEN <<>>
    ELSE (IF Head(blocks).type = "text" THEN Head(blocks).text ELSE <<>>)
         \o TextOf(Tail(blocks))

RECURSIVE ToolCallsOf(_)
\* message.tool_calls after the loop over the content blocks
ToolCallsOf(blocks) ==
    IF blocks = <<>> THEN <<>>
    ELSE LET b == Head(blocks)
         IN (IF b.type = "tool_use" /\ b.id # <<>> /\ b.name # <<>>
             THEN <<[id |-> b.id, name |-> b.name,
                     arguments |-> Stringify(b.input)]>>
             ELSE <<>>) \o ToolCallsOf(Tail(blocks))

\* finish_reason of convertNonStreamingResponse (the empty string is null)
NonStreamingFinishReason(stop_reason) ==
    IF stop_reason = <<"end_turn">> THEN <<"stop">>
    ELSE IF stop_reason = <<"tool_use">> THEN <<"tool_calls">>
    ELSE stop_reason

\* convertNonStreamingResponse(anthropicResponse, originalModel), without the
\* created timestamp
convertNonStreamingResponse(r, model) ==
    [type |-> "completion",
     id |-> <<"chatcmpl-">> \o RemoveFirst(OrElse(r.id, <<"Date.now()">>), "msg_"),
     model |-> OrElse(model, OrElse(r.model, <<"claude", "unknown">>)),
     role |-> "assistant",
     has_content |-> TextOf(r.content) # <<>>,
     content |-> TextOf(r.content),
     tool_calls |-> ToolCallsOf(r.content),
     finish_reason |-> NonStreamingFinishReason(r.stop_reason),
     usage |-> [prompt_tokens |-> IF r.has_usage THEN r.input_tokens ELSE 0,
                completion_tokens |-> IF r.has_usage THEN r.output_tokens ELSE 0,
                total_tokens |-> IF r.has_usage THEN r.input_tokens + r.output_tokens
                                 ELSE 0,
                cached_tokens |-> IF r.has_usage THEN r.cache_read_input_tokens ELSE 0,
                reasoning_tokens |-> 0]]

-----------------------------------------------------------------------------
(* Model variants (server.ts)                                              *)

\* A model name is the sequence of its words, the '-' between them left out:
\* claude-4-sonnet-high is <<"claude", "4", "sonnet", "high">>.

\* String.prototype.toLowerCase for one word
LowerWord(w) ==
    CASE w = "CLAUDE" -> "claude"
      [] w = "Claude" -> "claude"
      [] w = "OPUS" -> "opus"
      [] w = "Opus" -> "opus"
      [] w = "SONNET" -> "sonnet"
      [] w = "HAIKU" -> "haiku"
      [] w = "HIGH" -> "high"
      [] w = "THINKING" -> "thinking"
      [] w = "Thinking" -> "thinking"
      [] w = "GPT" -> "gpt"
      [] OTHER -> w

\* model.toLowerCase().trim(): a blank word at either end is dropped
RECURSIVE TrimWords(_)
TrimWords(m) ==
    IF m # <<>> /\ m[1] = " " THEN TrimWords(Tail(m))
    ELSE IF m # <<>> /\ m[Len(m)] = " " THEN TrimWords(SubSeq(m, 1, Len(m) - 1))
    ELSE m

LowerCase(m) == [i \in 1..Len(m) |-> LowerWord(m[i])]

\* String.prototype.includes for a word
Includes(m, w) == w \in Range(m)

budget_tokens == 32000

\* THINKING_CONFIG, and null
THINKING_CONFIG == [enabled |-> TRUE, budget_tokens |-> budget_tokens]
NoThinkingConfig == [enabled |-> FALSE, budget_tokens |-> 0]

Variant(model, maxTokens, thinking) ==
    [model |-> model, maxTokens |-> maxTokens, thinking |-> thinking]

OpusModel == <<"claude", "opus", "4", "5">>
SonnetModel == <<"claude", "sonnet", "4", "5">>
HaikuModel == <<"claude", "haiku", "4", "5">>

ThinkingMaxTokens == 64000
HighMaxTokens == 32000
DefaultMaxTokens == 8192

\* MODEL_VARIANTS: the keys in the order of the table, and their configurations
VariantKeys ==
    << <<"claude", "4", "opus", "high", "thinking">>,
       <<"claude", "4", "opus", "high">>,
       <<"claude", "4", "sonnet", "high", "thinking">>,
       <<"claude", "4", "sonnet", "high">>,
       <<"claude", "4.5", "opus", "high", "thinking">>,
       <<"claude", "4.5", "opus", "high">>,
       <<"claude", "4.5", "sonnet", "high", "thinking">>,
       <<"claude", "4.5", "sonnet", "high">> >>

VariantConfigs ==
    << Variant(OpusModel, ThinkingMaxTokens, THINKING_CONFIG),
       Variant(OpusModel, HighMaxTokens, NoThinkingConfig),
       Variant(SonnetModel, ThinkingMaxTokens, THINKING_CONFIG),
       Variant(SonnetModel, HighMaxTokens, NoThinkingConfig),
       Variant(OpusModel, ThinkingMaxTokens, THINKING_CONFIG),
       Variant(OpusModel, HighMaxTokens, NoThinkingConfig),
       Variant(SonnetModel, ThinkingMaxTokens, THINKING_CONFIG),
       Variant(SonnetModel, HighMaxTokens, NoThinkingConfig) >>

\* resolveModelVariant looking for "opus" and "haiku" in the name before
\* looking the name up in MODEL_VARIANTS
resolveModelVariantBaseFirst(model) ==
    LET normalizedModel == TrimWords(LowerCase(model))
        withOriginal(v) == [model |-> v.model, maxTokens |-> v.maxTokens,
                            thinking |-> v.thinking, originalModel |-> model]
    IN IF Includes(normalizedModel, "thinking") \/ Includes(normalizedModel, "opus")
       THEN withOriginal(Variant(
                IF Includes(normalizedModel, "opus") THEN OpusModel
                ELSE IF Includes(normalizedModel, "haiku") THEN HaikuModel
                ELSE SonnetModel,
                ThinkingMaxTokens, THINKING_CONFIG))
       ELSE IF \E i \in 1..Len(VariantKeys) : LowerCase(VariantKeys[i]) = normalizedModel
       THEN withOriginal(VariantConfigs[CHOOSE i \in 1..Len(VariantKeys) :
                                           LowerCase(VariantKeys[i]) = normalizedModel])
       ELSE withOriginal(Variant(model, DefaultMaxTokens, NoThinkingConfig))

\* resolveModelVariant(model)
resolveModelVariant(model) ==
    LET normalizedModel == TrimWords(LowerCase(model))
        withOriginal(v) == [model |-> v.model, maxTokens |-> v.maxTokens,
                            thinking |-> v.thinking, originalModel |-> model]
    IN IF \E i \in 1..Len(VariantKeys) : LowerCase(VariantKeys[i]) = normalizedModel
       THEN withOriginal(VariantConfigs[CHOOSE i \in 1..Len(VariantKeys) :
                                           LowerCase(VariantKeys[i]) = normalizedModel])
       ELSE IF Includes(normalizedModel, "thinking")
            THEN withOriginal(Variant(
                     IF Includes(normalizedModel, "opus") THEN OpusModel
                     ELSE IF Includes(normalizedModel, "haiku") THEN HaikuModel
                     ELSE SonnetModel,
                     ThinkingMaxTokens, THINKING_CONFIG))
       ELSE IF Len(normalizedModel) >= 2 /\ normalizedModel[1] = "claude"
            THEN withOriginal(Variant(model, DefaultMaxTokens, NoThinkingConfig))
       ELSE withOriginal(Variant(model, DefaultMaxTokens, NoThinkingConfig))

\* isClaudeModel of messagesFn, computed on the resolved body.model
isClaudeModel(bodyModel) ==
    LET m == LowerCase(bodyModel)
    IN Includes(m, "claude") \/ Includes(m, "sonnet") \/ Includes(m, "opus")
       \/ Includes(m, "haiku")

\* no model string resolved yet
NoVariant ==
    [model |-> <<>>, maxTokens |-> 0, thinking |-> NoThinkingConfig,
     originalModel |-> <<>>]

ResolverIdle ==
    /\ clientModel = <<>>
    /\ resolved = NoVariant

-----------------------------------------------------------------------------
(* The thinking cache (thinking-cache.ts)                                  *)

MAX_MEMORY_CACHE_SIZE == 100

\* A Map is the sequence of its entries [key, value] in insertion order.
MapHas(m, k) == \E i \in 1..Len(m) : m[i].key = k
MapGet(m, k) == m[CHOOSE i \in 1..Len(m) : m[i].key = k].value
MapSet(m, k, v) ==
    IF MapHas(m, k)
    THEN [i \in 1..Len(m) |-> IF m[i].key = k THEN [key |-> k, value |-> v] ELSE m[i]]
    ELSE Append(m, [key |-> k, value |-> v])
MapKeys(m) == {m[i].key : i \in 1..Len(m)}

CachedThinkingBlock(tb, ts) == [thinkingBlock |-> tb, timestamp |-> ts]

RECURSIVE DropOldest(_, _)
\* delete the n entries that come first when the entries are sorted by
\* timestamp (the sort is stable: of equal timestamps the earlier inserted)
DropOldest(m, n) ==
    IF n <= 0 \/ m = <<>> THEN m
    ELSE LET i == CHOOSE j \in 1..Len(m) :
                     /\ \A k \in 1..Len(m) : m[j].value.timestamp <= m[k].value.timestamp
                     /\ \A k \in 1..(j - 1) : m[k].value.timestamp > m[j].value.timestamp
         IN DropOldest(SubSeq(m, 1, i - 1) \o SubSeq(m, i + 1, Len(m)), n - 1)

\* cleanupMemoryCache()
cleanupMemoryCache(m) ==
    IF Len(m) > MAX_MEMORY_CACHE_SIZE THEN DropOldest(m, Len(m) - MAX_MEMORY_CACHE_SIZE)
    ELSE m

\* assistantContent.filter(block => not a thinking block)
RECURSIVE FilterNonThinking(_)
FilterNonThinking(blocks) ==
    IF blocks = <<>> THEN <<>>
    ELSE IF IsThinkingType(Head(blocks)) THEN FilterNonThinking(Tail(blocks))
    ELSE <<Head(blocks)>> \o FilterNonThinking(Tail(blocks))

\* StoreThinkingBlock writing the persistent tier first, a failed write
\* leaving the local tier as it was
StoreThinkingBlockRedisFirst(mem, redis, configured, redisOk, key, cacheData) ==
    IF configured /\ ~redisOk THEN [memory |-> mem, redis |-> redis]
    ELSE [memory |-> MapSet(cleanupMemoryCache(mem), key, cacheData),
          redis |-> IF configured THEN MapSet(redis, key, cacheData) ELSE redis]

\* the two stores of cacheThinkingBlock: memoryCache.set after the cleanup,
\* and redis.set.  redisOk says whether the write to the persistent tier
\* succeeds; a failure is caught and logged.
StoreThinkingBlock(mem, redis, configured, redisOk, key, cacheData) ==
    [memory |-> MapSet(cleanupMemoryCache(mem), key, cacheData),
     redis |-> IF configured /\ redisOk THEN MapSet(redis, key, cacheData) ELSE redis]

\* cacheThinkingBlock from the filtered content on
CacheUnderContent(mem, redis, configured, redisOk, nonThinkingContent, thinkingBlock, ts) ==
    IF nonThinkingContent = <<>> THEN [memory |-> mem, redis |-> redis]
    ELSE StoreThinkingBlock(mem, redis, configured, redisOk,
                            generateCacheKey(ArrayContent(nonThinkingContent)),
                            CachedThinkingBlock(thinkingBlock, ts))

\* cacheThinkingBlock(assistantContent, thinkingBlock) at time ts: the two
\* tiers it leaves
cacheThinkingBlock(mem, redis, configured, redisOk, assistantContent, thinkingBlock, ts) ==
    CacheUnderContent(mem, redis, configured, redisOk,
                      FilterNonThinking(assistantContent), thinkingBlock, ts)

\* getCachedThinkingBlock from the computed key on: the block found (hit =
\* FALSE for null) and the local tier it leaves.  redisOk says whether the
\* read of the persistent tier succeeds; a failure is caught and is a miss.
LookUpKey(mem, redis, configured, redisOk, key) ==
    IF MapHas(mem, key)
    THEN [hit |-> TRUE, block |-> MapGet(mem, key).thinkingBlock, memory |-> mem]
    ELSE IF configured /\ redisOk /\ MapHas(redis, key)
         THEN [hit |-> TRUE, block |-> MapGet(redis, key).thinkingBlock,
               memory |-> MapSet(mem, key, MapGet(redis, key))]
    ELSE [hit |-> FALSE, block |-> ThinkingBlock(<<>>, <<>>), memory |-> mem]

\* getCachedThinkingBlock(content)
getCachedThinkingBlock(mem, redis, configured, redisOk, content) ==
    LookUpKey(mem, redis, configured, redisOk, generateCacheKey(content))

hasThinking(blocks) == \E i \in 1..Len(blocks) : IsThinkingType(blocks[i])

\* msg.content.some(block => block.type === ...) reaches a null before it
\* finds a thinking block: reading block.type throws a TypeError
SomeThrows(blocks) ==
    \E i \in 1..Len(blocks) :
       /\ blocks[i].type = "null"
       /\ \A j \in 1..(i - 1) : ~IsThinkingType(blocks[j])

\* WithThinkingFirst putting the cached block after the content
WithThinkingLast(msg, cachedThinking) ==
    [msg EXCEPT !.content =
        ArrayContent((IF msg.content.isString THEN <<TextBlock(msg.content.str)>>
                      ELSE msg.content.blocks) \o <<cachedThinking>>)]

\* msg.content = [cachedThinking, ...msg.content], or for a string content
\* [cachedThinking, {type: 'text', text: msg.content}]
WithThinkingFirst(msg, cachedThinking) ==
    [msg EXCEPT !.content =
        ArrayContent(<<cachedThinking>> \o
            (IF msg.content.isString THEN <<TextBlock(msg.content.str)>>
             ELSE msg.content.blocks))]

\* what one iteration of the loop of injectCachedThinkingBlocks does with
\* the message msg, c being what getCachedThinkingBlock gives for its content
InjectInto(msg, c, injectedCount, mem) ==
    IF msg.role = "assistant" /\ ~msg.content.isString /\ SomeThrows(msg.content.blocks)
    THEN [msg |-> msg, injectedCount |-> injectedCount, memory |-> mem, threw |-> TRUE]
    ELSE IF msg.role # "assistant"
            \/ (~msg.content.isString /\ hasThinking(msg.content.blocks))
    THEN [msg |-> msg, injectedCount |-> injectedCount, memory |-> mem, threw |-> FALSE]
    ELSE IF c.hit
         THEN [msg |-> WithThinkingFirst(msg, c.block),
               injectedCount |-> injectedCount + 1, memory |-> c.memory,
               threw |-> FALSE]
    ELSE [msg |-> msg, injectedCount |-> injectedCount, memory |-> c.memory,
          threw |-> FALSE]

RECURSIVE InjectLoop(_, _, _, _, _, _, _)
\* the iteration of the loop for the message at i, and the rest of the loop
InjectStep(messages, i, step, redis, configured, redisOk) ==
    IF step.threw
    THEN [messages |-> messages, injectedCount |-> step.injectedCount,
          memory |-> step.memory, threw |-> TRUE]
    ELSE
    InjectLoop([messages EXCEPT ![i] = step.msg], i + 1, step.injectedCount,
               step.memory, redis, configured, redisOk)

\* the loop of injectCachedThinkingBlocks over the messages from the one at i
InjectLoop(messages, i, injectedCount, mem, redis, configured, redisOk) ==
    IF i > Len(messages)
    THEN [messages |-> messages, injectedCount |-> injectedCount, memory |-> mem,
          threw |-> FALSE]
    ELSE InjectStep(messages, i,
                    InjectInto(messages[i],
                               getCachedThinkingBlock(mem, redis, configured, redisOk,
                                                      messages[i].content),
                               injectedCount, mem),
                    redis, configured, redisOk)

\* injectCachedThinkingBlocks(messages): the messages as it leaves them, the
\* number it returns and the local tier it leaves
injectCachedThinkingBlocks(messages, mem, redis, configured, redisOk) ==
    InjectLoop(messages, 1, 0, mem, redis, configured, redisOk)

-----------------------------------------------------------------------------
(* OAuth credentials and their storage (oauth-manager.ts, storage.ts)      *)

MaxCallers == 2     \* getAccessToken calls in flight
MaxClock == 2       \* the last instant Date.now() reaches

Callers == 1..MaxCallers

\* storage.get resolving to null
NoCredentials == [type |-> "null", refresh |-> <<>>, access |-> <<>>, expires |-> 0]

\* an OAuthCredentials value
OAuthCredentials(type, refresh, access, expires) ==
    [type |-> type, refresh |-> refresh, access |-> access, expires |-> expires]

\* getAccessToken and refreshToken returning null
NoToken == <<>>

Digits == <<"0", "1", "2", "3", "4", "5", "6", "7", "8", "9">>

RECURSIVE NumberToString(_)
\* a number as JSON.stringify writes it
NumberToString(n) ==
    IF n < 10 THEN <<Digits[n + 1]>>
    ELSE NumberToString(n \div 10) \o <<Digits[(n % 10) + 1]>>

RECURSIVE StringToNumber(_)
\* the number JSON.parse reads from a run of digits
StringToNumber(s) ==
    IF s = <<>> THEN 0
    ELSE 10 * StringToNumber(SubSeq(s, 1, Len(s) - 1))
         + ((CHOOSE d \in 1..10 : Digits[d] = s[Len(s)]) - 1)

\* a JSON number: digits, with no leading zero
IsNumber(s) ==
    /\ s # <<>>
    /\ \A i \in 1..Len(s) : s[i] \in Range(Digits)
    /\ Len(s) > 1 => s[1] # "0"

\* the structural tokens of the stored text
JsonMarks == {"{", "}", ",", "type:", "refresh:", "access:", "expires:"}

\* JSON.stringify of { [AUTH_KEY]: value }: the text of the file, and the
\* value Redis keeps; the characters of the two secrets and the digits of
\* expires are one element each
JsonStringify(value) ==
    <<"{", "type:", value.type, ",", "refresh:">> \o value.refresh
    \o <<",", "access:">> \o value.access
    \o <<",", "expires:">> \o NumberToString(value.expires) \o <<"}">>

\* the positions of a token in a text
Positions(text, mark) == {i \in 1..Len(text) : text[i] = mark}

\* JSON.parse(data) does not throw: one object with the four fields, and
\* nothing before it or after it
JsonParses(text) ==
    /\ Len(text) >= 5
    /\ Positions(text, "{") = {1}
    /\ Positions(text, "}") = {Len(text)}
    /\ Positions(text, "type:") = {2}
    /\ text[3] \notin JsonMarks
    /\ Positions(text, "refresh:") = {5}
    /\ Cardinality(Positions(text, "access:")) = 1
    /\ Cardinality(Positions(text, "expires:")) = 1
    /\ \E a \in Positions(text, "access:"), e \in Positions(text, "expires:") :
          /\ a < e
          /\ Positions(text, ",") = {4, a - 1, e - 1}
          /\ Cardinality({4, a - 1, e - 1}) = 3
          /\ IsNumber(SubSeq(text, e + 1, Len(text) - 1))

\* JSON.parse(data)[AUTH_KEY] of a text that parses
JsonParse(text) ==
    LET a == CHOOSE i \in 1..Len(text) : text[i] = "access:"
        e == CHOOSE i \in 1..Len(text) : text[i] = "expires:"
    IN OAuthCredentials(text[3], SubSeq(text, 6, a - 2), SubSeq(text, a + 1, e - 2),
                        StringToNumber(SubSeq(text, e + 1, Len(text) - 1)))

\* the store: Redis behind its REST client, or the file .auth_data.json;
\* exists is the key being set, or the file being there
Store(kind, exists, data) == [kind |-> kind, exists |-> exists, data |-> data]

\* RedisStorage.get
RedisGet(store) == IF store.exists THEN JsonParse(store.data) ELSE NoCredentials

\* FileStorage.get: null when the file is missing or does not parse
FileGet(store) ==
    IF ~store.exists THEN NoCredentials
    ELSE IF ~JsonParses(store.data) THEN NoCredentials
    ELSE JsonParse(store.data)

\* get(): storage.get(AUTH_KEY)
get(store) == IF store.kind = "redis" THEN RedisGet(store) ELSE FileGet(store)

\* what a write of data through a descriptor opened at offset 0 leaves in a
\* file that holds old
WriteAtStart(old, data) == data \o SubSeq(old, Len(data) + 1, Len(old))

\* a check that takes a credential expiring at t itself for a valid one
TokenIsValidInclusive(credentials, t) ==
    credentials.expires # 0 /\ credentials.expires >= t

\* the credential has not expired at instant t
TokenIsValid(credentials, t) == credentials.expires # 0 /\ credentials.expires > t

\* the access_token and the refresh_token of the k-th answer of the token
\* endpoint: each answer carries new secrets, of their own length
AccessTokenNo(k) == [i \in 1..k |-> "A"]
RefreshTokenNo(k) == [i \in 1..k |-> "R"]

\* the expires_in the token endpoint answers with, in seconds
ExpiresIns == {1}

\* a TokenResponse
TokenResponse(k, expires_in) ==
    [access_token |-> AccessTokenNo(k), refresh_token |-> RefreshTokenNo(k),
     expires_in |-> expires_in]

NoTokenResponse == [access_token |-> <<>>, refresh_token |-> <<>>, expires_in |-> 0]

\* credentials whose expires is the lifetime itself, not an instant
NewCredentialsRelative(data, t) ==
    OAuthCredentials("oauth", data.refresh_token, data.access_token,
                     data.expires_in * 1000)

\* newCredentials of refreshToken, computed at instant t
NewCredentials(data, t) ==
    OAuthCredentials("oauth", data.refresh_token, data.access_token,
                     t + data.expires_in * 1000)

\* one getAccessToken call: where it is, the credentials it read, the token
\* endpoint's answer, the credentials it built, what it returned and the error
\* the catch of refreshToken caught
Call(at, credentials, data, newCredentials, result, error) ==
    [at |-> at, credentials |-> credentials, data |-> data,
     newCredentials |-> newCredentials, result |-> result, error |-> error]

NotCalled == Call("idle", NoCredentials, NoTokenResponse, NoCredentials, NoToken, "")

\* no call in flight, nothing stored
AuthIdle ==
    /\ storage = Store("file", FALSE, <<>>)
    /\ calls = [c \in Callers |-> NotCalled]
    /\ issued = 0

-----------------------------------------------------------------------------
(* One streamed response: the upstream and the stream callback of          *)
(* messagesFn                                                              *)

MaxEvents == 4      \* pings, content block starts and deltas per response
MaxPending == 1     \* the upstream sends only while at most this many tokens are unread

OriginalModels == { <<"claude", "4", "sonnet", "high", "thinking">> }
TextDeltas == { <<"H">> }
PartialJsons == { <<"x">>, <<"x", "y">> }
ThinkingDeltas == { <<"t">> }
SignatureDeltas == { <<"s">> }
StopReasons == { <<"end_turn">>, <<"max_tokens">> }
TokenCounts == {0, 2}
\* how the upstream may end a streamed message: its stop_reason and the
\* output tokens it reports with it
MessageEnds ==
    { [stop_reason |-> <<"end_turn">>, tokens |-> 2],
      [stop_reason |-> <<"max_tokens">>, tokens |-> 0] }

\* the line an event is sent as: "data: {...}" in two halves, and its newline
Serialize(e) == <<Data1(e), Data2(e), NL>>

MessageStart(model, tokens) ==
    [Ev("message_start") EXCEPT !.has_message = TRUE, !.m_id = <<"msg_", "A">>,
                                !.m_model = model, !.has_m_usage = TRUE,
                                !.mu_input = tokens, !.mu_cache_read = tokens]
ContentBlockStart(i, t) ==
    [Ev("content_block_start") EXCEPT
        !.index = i, !.cb_type = t,
        !.cb_id = IF t = "tool_use" THEN <<"tu_", "1">> ELSE <<>>,
        !.cb_name = IF t = "tool_use" THEN <<"f">> ELSE <<>>]
TextDelta(i, t) == [Ev("content_block_delta") EXCEPT !.index = i, !.d_text = t]
InputJsonDelta(i, j) == [Ev("content_block_delta") EXCEPT !.index = i, !.d_partial_json = j]
ThinkingDelta(i, t) == [Ev("content_block_delta") EXCEPT !.index = i, !.d_thinking = t]
SignatureDelta(i, g) == [Ev("content_block_delta") EXCEPT !.index = i, !.d_signature = g]
ContentBlockStop(i) == [Ev("content_block_stop") EXCEPT !.index = i]
MessageDelta(r, tokens) ==
    [Ev("message_delta") EXCEPT !.d_stop_reason = r, !.u_output = tokens]
MessageStop == Ev("message_stop")
Ping == Ev("ping")

\* the deltas the upstream may send inside a block of type t at index i
DeltasOf(t, i) ==
    IF t = "text" THEN {TextDelta(i, x) : x \in TextDeltas}
    ELSE IF t = "tool_use" THEN {InputJsonDelta(i, x) : x \in PartialJsons}
    ELSE IF t = "thinking"
         THEN {ThinkingDelta(i, x) : x \in ThinkingDeltas}
              \cup {SignatureDelta(i, x) : x \in SignatureDeltas}
    ELSE {}

UpstreamInit ==
    [phase |-> "start", nextIndex |-> 0, open |-> None, nEvents |-> 0]

StreamInit(model) ==
    /\ originalModel = model
    /\ state = createConverterState(model)
    /\ wire = <<>>
    /\ consumed = <<>>
    /\ out = <<>>
    /\ upstream = UpstreamInit
    /\ sentEvents = <<>>

\* the upstream writes the lines of event e
Send(e, up) ==
    /\ pc = "streaming"
    /\ Len(wire) <= MaxPending
    /\ wire' = wire \o Serialize(e)
    /\ sentEvents' = Append(sentEvents, e)
    /\ upstream' = up
    /\ UNCHANGED <<originalModel, state, consumed, out, pc,
                   transformToOpenAIFormat, cacheVars, pipeVars, keyVars, authVars, resolverVars, cacheUses>>

SendMessageStart ==
    /\ upstream.phase = "start"
    /\ Send(MessageStart(resolveModelVariant(originalModel).model, 0),
            [upstream EXCEPT !.phase = "body"])

SendPing ==
    /\ upstream.phase = "body"
    /\ upstream.open = None
    /\ upstream.nextIndex = 0
    /\ upstream.nEvents < MaxEvents
    /\ Send(Ping, [upstream EXCEPT !.nEvents = @ + 1])

StartBlock ==
    /\ upstream.phase = "body"
    /\ upstream.open = None
    /\ upstream.nEvents < MaxEvents
    /\ \E t \in {"thinking", "redacted_thinking", "text", "tool_use"} :
          Send(ContentBlockStart(upstream.nextIndex, t),
               [upstream EXCEPT !.open = t, !.nEvents = @ + 1])

SendDelta ==
    /\ upstream.phase = "body"
    /\ upstream.open # None
    /\ upstream.nEvents < MaxEvents
    /\ \E e \in DeltasOf(upstream.open, upstream.nextIndex) :
          Send(e, [upstream EXCEPT !.nEvents = @ + 1])

StopBlock ==
    /\ upstream.phase = "body"
    /\ upstream.open # None
    /\ Send(ContentBlockStop(upstream.nextIndex),
            [upstream EXCEPT !.open = None, !.nextIndex = @ + 1])

SendMessageDelta ==
    /\ upstream.phase = "body"
    /\ upstream.open = None
    /\ \E end \in MessageEnds :
          Send(MessageDelta(end.stop_reason, end.tokens),
               [upstream EXCEPT !.phase = "delta"])

SendMessageStop ==
    /\ upstream.phase = "delta"
    /\ Send(MessageStop, [upstream EXCEPT !.phase = "stopped"])

\* the upstream is cut off in the middle of the data line of a tool-input delta
CloseMidLine ==
    /\ pc = "streaming"
    /\ upstream.phase = "body"
    /\ upstream.open = "tool_use"
    /\ wire' = wire \o <<Data1(InputJsonDelta(upstream.nextIndex, <<"x">>))>>
    /\ upstream' = [upstream EXCEPT !.phase = "truncated"]
    /\ UNCHANGED <<originalModel, state, consumed, out, sentEvents, pc,
                   transformToOpenAIFormat, cacheVars, pipeVars, keyVars, authVars, resolverVars, cacheUses>>

\* one iteration of the while loop: reader.read() gives the next n unread
\* tokens, which are translated and written, or written through
ReadChunk ==
    /\ pc = "streaming"
    /\ \E n \in 1..Len(wire) :
          LET chunk == SubSeq(wire, 1, n)
              r == processChunk(state, chunk)
          IN /\ wire' = SubSeq(wire, n + 1, Len(wire))
             /\ consumed' = consumed \o chunk
             /\ IF transformToOpenAIFormat
                THEN /\ state' = r.state
                     /\ out' = out \o r.results
                ELSE /\ out' = Append(out, RawResult(chunk))
                     /\ UNCHANGED state
    /\ UNCHANGED <<originalModel, upstream, sentEvents, pc, transformToOpenAIFormat,
                   cacheVars, pipeVars, keyVars, authVars, resolverVars, cacheUses>>

\* the phase of an upstream whose body has ended
Ended(up) ==
    [up EXCEPT !.phase = IF up.phase \in {"stopped", "closed"} THEN "closed"
                         ELSE "truncated"]

\* the code after the while loop: the captured thinking block, if there is
\* one and text was accumulated, is written to the cache
PostStreamCaching(st) ==
    LET thinkingBlock == getThinkingBlockFromState(st)
        accumulatedText == getAccumulatedText(st)
    IN IF thinkingBlock.present /\ accumulatedText # <<>>
       THEN \E redisOk \in BOOLEAN :
               LET w == cacheThinkingBlock(memoryCache, redisStore, redisConfigured,
                                           redisOk,
                                           <<thinkingBlock.block,
                                             TextBlock(accumulatedText)>>,
                                           thinkingBlock.block, now)
               IN /\ redisConfigured \/ redisOk
                  /\ memoryCache' = w.memory
                  /\ redisStore' = w.redis
                  /\ now' = now + 1
       ELSE UNCHANGED <<memoryCache, redisStore, now>>

\* reader.read() reports done (the upstream has ended its body, after
\* message_stop or before it, and everything sent was read): the loop ends
\* and the post-stream caching runs
ReadDone ==
    /\ pc = "streaming"
    /\ wire = <<>>
    /\ PostStreamCaching(state)
    /\ pc' = "finished"
    /\ upstream' = Ended(upstream)
    /\ UNCHANGED <<originalModel, state, wire, consumed, out, sentEvents,
                   transformToOpenAIFormat, redisConfigured, pipeVars, keyVars, authVars, resolverVars, cacheUses>>

\* reader.read() rejects (the connection to the upstream broke; what was
\* sent and never read is as if it had not been sent): the catch block logs
\* the error and nothing is cached
ReadError ==
    /\ pc = "streaming"
    /\ wire = <<>>
    /\ upstream.phase # "truncated"
    /\ pc' = "finished"
    /\ upstream' = [upstream EXCEPT !.phase = "failed"]
    /\ UNCHANGED <<originalModel, state, wire, consumed, out, sentEvents,
                   transformToOpenAIFormat, cacheVars, pipeVars, keyVars, authVars, resolverVars, cacheUses>>

\* the full responses the upstream may give to a request that does not stream
ResponseContents ==
    { <<TextBlock(<<"H">>)>>,
      <<ThinkingBlock(<<"t">>, <<"s">>), TextBlock(<<"H">>),
        ToolUseBlock(<<"tu_", "1">>, <<"f">>, << <<(<<"b">>), (<<"1">>)>> >>)>>,
      <<ToolUseBlock(<<"tu_", "1">>, <<"f">>, <<>>)>>,
      <<>> }

FullResponses(model) ==
    { FullResponse(<<"msg_", "A">>, m, c, r, t, t, t) :
        m \in {model, <<>>}, c \in ResponseContents, r \in StopReasons \cup {<<>>},
        t \in TokenCounts }

\* the branch of messagesFn for a response that is not streamed:
\* response.json(), then the converted object or the payload itself
NonStreaming ==
    /\ pc = "responding"
    /\ \E r \in FullResponses(resolveModelVariant(originalModel).model) :
          out' = IF transformToOpenAIFormat
                 THEN <<convertNonStreamingResponse(r, originalModel)>>
                 ELSE <<[type |-> "payload", response |-> r]>>
    /\ pc' = "finished"
    /\ UNCHANGED <<originalModel, state, wire, consumed, upstream, sentEvents,
                   transformToOpenAIFormat, cacheVars, pipeVars, keyVars, authVars, resolverVars, cacheUses>>

-----------------------------------------------------------------------------
(* messagesFn: from the request to the upstream call (server.ts)           *)

\* the first words of the persona line, and the rest of it
PersonaLine == <<"You are Claude Code", ", Anthropic's official CLI for Claude.">>

\* text.includes("You are Claude Code")
IncludesPersona(text) == \E i \in 1..Len(text) : text[i] = "You are Claude Code"

\* a request body and what the handler reads of the request besides it.  A
\* field the client did not send has its has_ flag FALSE (temperature:
\* "undefined"; max_tokens: 0).  system is the list of the texts of its blocks.
Request(model, stream, apiKey, probe, path, system, messages, temperature, max_tokens) ==
    [model |-> model, stream |-> stream, apiKey |-> apiKey, probe |-> probe,
     path |-> path,
     has_system |-> system.has, system |-> system.blocks,
     has_messages |-> messages.has, messages |-> messages.list,
     temperature |-> temperature, max_tokens |-> max_tokens]

NoRequest ==
    Request(<<>>, FALSE, <<>>, FALSE, <<>>, [has |-> FALSE, blocks |-> <<>>],
            [has |-> FALSE, list |-> <<>>], "undefined", 0)

\* isCursorKeyCheck(body): the body has the shape of the client's key probe
isCursorKeyCheck(body) == body.probe

FallbackMaxTokens == 4096

InterleavedThinkingBeta == "interleaved-thinking-2025-05-14"

\* betaFeatures
BetaFeatures(variant) ==
    <<"oauth-2025-04-20", "fine-grained-tool-streaming-2025-05-14",
      "prompt-caching-2024-07-31">>
    \o (IF variant.thinking.enabled THEN <<InterleavedThinkingBeta>> ELSE <<>>)

\* Array.prototype.filter
FilterSeq(seq, Keep(_)) ==
    LET kept == {i \in 1..Len(seq) : Keep(seq[i])}
        nth(k) == CHOOSE i \in kept : Cardinality({j \in kept : j < i}) = k - 1
    IN [k \in 1..Cardinality(kept) |-> seq[nth(k)]]

\* a value read from a property of a number: undefined, which is falsy
Undefined == [defined |-> FALSE, truthy |-> FALSE, number |-> 0]
PropertyOfNumber(n, property) == Undefined

\* the body, the headers and the flags of the handler at the point it
\* returns or calls fetch.  kind tells which: "401", "404", "bypass",
\* "no_token", or "dispatched"; and after fetch, the kind of the answer.
\* errorType and errorCode are error.type and error.code of a JSON error
\* body that has them; authorization is the header given to fetch;
\* upstreamStatus and upstreamText are the status and the text of an upstream
\* response that is not 2xx, and body the strings of the answer made of it
Outcome(kind) ==
    [kind |-> kind, status |-> 0, transform |-> FALSE,
     errorType |-> "", errorCode |-> "", authorization |-> <<>>,
     upstreamStatus |-> 0, upstreamText |-> <<>>, body |-> <<>>,
     model |-> <<>>, has_messages |-> FALSE, messages |-> <<>>,
     has_system |-> FALSE, system |-> <<>>, max_tokens |-> 0, stream |-> FALSE,
     temperature |-> "undefined", thinking |-> NoThinkingConfig,
     beta |-> <<>>, injected |-> FALSE, injectedCount |-> 0,
     canUseThinking |-> Undefined, missingCount |-> Undefined,
     thinkingEnabled |-> FALSE]

NoOutcome == Outcome(None)

\* what is remembered of the last streamed response: whether it ended after
\* message_stop, whether a thinking block was captured from it, and its
\* content without the thinking (its text block, then its tool_use blocks)
NoResponse == [clean |-> FALSE, captured |-> FALSE, content |-> <<>>]

\* RewriteBody with the persona line pushed after the client's system content
RewriteBodyPersonaLast(body, variant) ==
    LET isSystem(msg) == msg.role = "system"
        notSystem(msg) == msg.role # "system"
        systemMessages == FilterSeq(body.messages, isSystem)
    IN [body EXCEPT
          !.messages = FilterSeq(body.messages, notSystem),
          !.has_system = TRUE,
          !.system = body.system \o <<PersonaLine>>
                     \o [i \in 1..Len(systemMessages) |-> systemMessages[i].content.str],
          !.max_tokens = variant.maxTokens]

\* the rewrite of the body for a client that is not the first-party CLI
RewriteBody(body, variant) ==
    LET isSystem(msg) == msg.role = "system"
        notSystem(msg) == msg.role # "system"
        systemMessages == FilterSeq(body.messages, isSystem)
    IN [body EXCEPT
          !.messages = FilterSeq(body.messages, notSystem),
          !.has_system = TRUE,
          !.system = <<PersonaLine>> \o body.system
                     \o [i \in 1..Len(systemMessages) |-> systemMessages[i].content.str],
          !.max_tokens = variant.maxTokens]

\* Dispatched leaving the anthropic-beta header as it was built when the
\* thinking parameter is deleted
DispatchedKeepBeta(body, variant, transform, inject, inj, canUseThinking, missingCount, downgrade) ==
    [Outcome("dispatched") EXCEPT
       !.transform = transform,
       !.model = body.model,
       !.has_messages = body.has_messages,
       !.messages = inj.messages,
       !.has_system = body.has_system \/ transform,
       !.system = body.system,
       !.max_tokens = IF body.max_tokens # 0 THEN body.max_tokens
                      ELSE IF variant.maxTokens # 0 THEN variant.maxTokens
                      ELSE FallbackMaxTokens,
       !.stream = body.stream,
       !.temperature = IF variant.thinking.enabled /\ ~downgrade THEN "1"
                       ELSE body.temperature,
       !.thinking = IF downgrade THEN NoThinkingConfig ELSE variant.thinking,
       !.beta = BetaFeatures(variant),
       !.injected = inject,
       !.injectedCount = inj.injectedCount,
       !.canUseThinking = IF inject THEN canUseThinking ELSE Undefined,
       !.missingCount = IF inject THEN missingCount ELSE Undefined,
       !.thinkingEnabled = variant.thinking.enabled /\ ~downgrade]

\* the body given to fetch, its anthropic-beta header and what the handler
\* read of the injection, after the downgrade if there is one
Dispatched(body, variant, transform, inject, inj, canUseThinking, missingCount, downgrade) ==
    [Outcome("dispatched") EXCEPT
       !.transform = transform,
       !.model = body.model,
       !.has_messages = body.has_messages,
       !.messages = inj.messages,
       !.has_system = body.has_system \/ transform,
       !.system = body.system,
       !.max_tokens = IF body.max_tokens # 0 THEN body.max_tokens
                      ELSE IF variant.maxTokens # 0 THEN variant.maxTokens
                      ELSE FallbackMaxTokens,
       !.stream = body.stream,
       !.temperature = IF variant.thinking.enabled /\ ~downgrade THEN "1"
                       ELSE body.temperature,
       !.thinking = IF downgrade THEN NoThinkingConfig ELSE variant.thinking,
       !.beta = IF downgrade
                THEN FilterSeq(BetaFeatures(variant),
                               LAMBDA h : h # InterleavedThinkingBeta)
                ELSE BetaFeatures(variant),
       !.injected = inject,
       !.injectedCount = inj.injectedCount,
       !.canUseThinking = IF inject THEN canUseThinking ELSE Undefined,
       !.missingCount = IF inject THEN missingCount ELSE Undefined,
       !.thinkingEnabled = variant.thinking.enabled /\ ~downgrade]

\* the handler from the result of the injection on: injectResult is the
\* number injectCachedThinkingBlocks returned
AfterInjection(body, variant, transform, inject, inj, canUseThinking) ==
    [outcome |-> Dispatched(body, variant, transform, inject, inj, canUseThinking,
                            PropertyOfNumber(inj.injectedCount, "missingCount"),
                            inject /\ variant.thinking.enabled
                                   /\ ~canUseThinking.truthy),
     memory |-> inj.memory]

\* the catch block of the handler: 500 with the message of the error
ProxyError(transform, message) ==
    [Outcome("proxy_error") EXCEPT !.status = 500, !.transform = transform,
                                   !.body = <<"Proxy error", message>>]

\* InjectionStep giving fetch the messages as they were before the injection
\* when the request is sent without the thinking parameter
InjectionStepUndone(body, variant, transform, inj) ==
    IF inj.threw
    THEN [outcome |-> ProxyError(transform, "Cannot read properties of null"),
          memory |-> inj.memory]
    ELSE AfterInjection(body, variant, transform,
                        body.has_messages /\ body.messages # <<>>,
                        [inj EXCEPT !.messages = body.messages],
                        PropertyOfNumber(inj.injectedCount, "canUseThinking"))

\* the injection step: it runs when the body has a non-empty messages array;
\* what injectCachedThinkingBlocks throws is caught by the handler's catch
InjectionStep(body, variant, transform, inj) ==
    IF inj.threw
    THEN [outcome |-> ProxyError(transform, "Cannot read properties of null"),
          memory |-> inj.memory]
    ELSE AfterInjection(body, variant, transform,
                        body.has_messages /\ body.messages # <<>>, inj,
                        PropertyOfNumber(inj.injectedCount, "canUseThinking"))

\* headers.authorization: `Bearer ${oauthToken}`
WithAuthorization(h, oauthToken) ==
    [h EXCEPT !.outcome.authorization = <<"Bearer", " ">> \o oauthToken]

\* the handler from the token check on, for the rewritten body
FromToken(body, variant, transform, oauthToken, mem, redis, configured, redisOk) ==
    IF oauthToken = <<>>
    THEN [outcome |-> [Outcome("no_token") EXCEPT !.status = 401,
                                                  !.transform = transform],
          memory |-> mem]
    ELSE CHOOSE answer \in
            { WithAuthorization(h, oauthToken) :
                h \in { InjectionStep(body, variant, transform,
                           IF body.has_messages /\ body.messages # <<>>
                           THEN injectCachedThinkingBlocks(body.messages, mem, redis,
                                                           configured, redisOk)
                           ELSE [messages |-> body.messages, injectedCount |-> 0,
                                 memory |-> mem, threw |-> FALSE]) } } : TRUE

\* FromRewrite deciding the format on the path alone
FromRewritePathOnly(body0, variant, rewrite, oauthToken, mem, redis, configured, redisOk) ==
    FromToken(IF rewrite THEN RewriteBody(body0, variant) ELSE body0, variant,
              body0.path = "/v1/chat/completions" \/ body0.path = "/v1/models",
              oauthToken, mem, redis, configured, redisOk)

\* the handler from the try block on, for the body with the resolved model
FromRewrite(body0, variant, rewrite, oauthToken, mem, redis, configured, redisOk) ==
    FromToken(IF rewrite THEN RewriteBody(body0, variant) ELSE body0, variant,
              rewrite \/ body0.path = "/v1/chat/completions"
                      \/ body0.path = "/v1/models",
              oauthToken, mem, redis, configured, redisOk)

\* a handler that runs the gateway and the key check of the client before
\* the API key check
FromApiKeyGatewayFirst(req, body0, variant, envApiKey, oauthToken, mem, redis, configured, redisOk) ==
    IF ~isClaudeModel(body0.model) /\ ~isCursorKeyCheck(body0)
    THEN [outcome |-> [Outcome("404") EXCEPT
                          !.status = 404,
                          !.errorType = "invalid_request_error",
                          !.errorCode = "model_not_supported_by_proxy"],
          memory |-> mem]
    ELSE IF isCursorKeyCheck(body0)
         THEN [outcome |-> [Outcome("bypass") EXCEPT !.status = 200], memory |-> mem]
    ELSE IF envApiKey # <<>> /\ req.apiKey # envApiKey
         THEN [outcome |-> [Outcome("401") EXCEPT !.status = 401], memory |-> mem]
    ELSE FromRewrite(body0, variant,
                     ~(body0.has_system /\ body0.system # <<>>
                       /\ IncludesPersona(body0.system[1]))
                     /\ body0.has_messages,
                     oauthToken, mem, redis, configured, redisOk)

\* the handler from the API key check on
FromApiKey(req, body0, variant, envApiKey, oauthToken, mem, redis, configured, redisOk) ==
    IF envApiKey # <<>> /\ req.apiKey # envApiKey
    THEN [outcome |-> [Outcome("401") EXCEPT !.status = 401], memory |-> mem]
    ELSE IF ~isClaudeModel(body0.model) /\ ~isCursorKeyCheck(body0)
         THEN [outcome |-> [Outcome("404") EXCEPT
                               !.status = 404,
                               !.errorType = "invalid_request_error",
                               !.errorCode = "model_not_supported_by_proxy"],
               memory |-> mem]
    ELSE IF isCursorKeyCheck(body0)
         THEN [outcome |-> [Outcome("bypass") EXCEPT !.status = 200], memory |-> mem]
    ELSE FromRewrite(body0, variant,
                     ~(body0.has_system /\ body0.system # <<>>
                       /\ IncludesPersona(body0.system[1]))
                     /\ body0.has_messages,
                     oauthToken, mem, redis, configured, redisOk)

\* the handler once the variant is resolved
WithVariant(req, variant, envApiKey, oauthToken, mem, redis, configured, redisOk) ==
    FromApiKey(req, [req EXCEPT !.model = variant.model], variant, envApiKey,
               oauthToken, mem, redis, configured, redisOk)

\* messagesFn from its first line to the call of fetch, for the request req
\* when process.env.API_KEY is envApiKey and getAccessToken gives oauthToken:
\* the outcome and the local tier of the cache it leaves
HandleRequest(req, envApiKey, oauthToken, mem, redis, configured, redisOk) ==
    WithVariant(req, resolveModelVariant(req.model), envApiKey, oauthToken, mem,
                redis, configured, redisOk)

Init ==
    /\ \E model \in OriginalModels : StreamInit(model)
    /\ transformToOpenAIFormat = TRUE
    /\ pc \in {"streaming", "responding"}
    /\ memoryCache = <<>>
    /\ redisStore = <<>>
    /\ redisConfigured = FALSE
    /\ now = 1
    /\ request = NoRequest
    /\ outcome = NoOutcome
    /\ nRequests = 0
    /\ lastResponse = NoResponse
    /\ API_KEY = <<>>
    /\ kContent = StringContent(<<>>)
    /\ kKey = generateCacheKey(StringContent(<<>>))
    /\ AuthIdle
    /\ ResolverIdle
    /\ cacheUses = <<>>

Next ==
    \/ SendMessageStart
    \/ SendPing
    \/ StartBlock
    \/ SendDelta
    \/ StopBlock
    \/ SendMessageDelta
    \/ SendMessageStop
    \/ CloseMidLine
    \/ ReadChunk
    \/ ReadDone
    \/ ReadError
    \/ NonStreaming

Spec == Init /\ [][Next]_vars

\* the upstream (or what carries its bytes) sends, inside a text block, a data
\* line whose JSON is cut short, so that JSON.parse throws on it
SendMalformed ==
    /\ pc = "streaming"
    /\ Len(wire) <= MaxPending
    /\ upstream.phase = "body"
    /\ upstream.open = "text"
    /\ upstream.nEvents < MaxEvents
    /\ wire' = wire \o <<Data1(TextDelta(upstream.nextIndex, <<"H">>)), NL>>
    /\ upstream' = [upstream EXCEPT !.nEvents = @ + 1]
    /\ UNCHANGED <<originalModel, state, consumed, out, sentEvents, pc,
                   transformToOpenAIFormat, cacheVars, pipeVars, keyVars, authVars, resolverVars, cacheUses>>

\* One streamed response in which data lines may come malformed
NextMalformed ==
    \/ SendMessageStart
    \/ SendPing
    \/ StartBlock
    \/ SendDelta
    \/ SendMalformed
    \/ StopBlock
    \/ SendMessageDelta
    \/ SendMessageStop
    \/ CloseMidLine
    \/ ReadChunk
    \/ ReadDone
    \/ ReadError
    \/ NonStreaming

SpecMalformed == Init /\ [][NextMalformed]_vars

-----------------------------------------------------------------------------
(* The cache key of one assistant content as thinking blocks are added to  *)
(* it and stripped from it and as the keys of a tool input are reordered   *)

MaxKeyBlocks == 2      \* non-thinking blocks of the content
MaxKeyThinking == 2    \* thinking blocks added to the content

\* input objects with their keys in sorted order
SortedInputs ==
    { <<>>, << <<(<<"a">>), (<<"1">>)>>, <<(<<"b">>), (<<"2">>)>> >> }

KeyBlocks ==
    { TextBlock(<<"H">>), TextBlock(<<" ", "H", " ", " ", "i", "\n">>),
      ToolResultBlock(<<"t", "1">>, <<"o", "k">>) }
    \cup { ToolUseBlock(<<"tu_", "1">>, <<"f">>, i) : i \in SortedInputs }

KeyThinkingBlocks ==
    { ThinkingBlock(<<"t">>, <<"s">>), RedactedThinkingBlock }

RECURSIVE SeqsUpTo(_, _)
\* the sequences of at most n elements of S
SeqsUpTo(S, n) ==
    IF n = 0 THEN { <<>> }
    ELSE LET shorter == SeqsUpTo(S, n - 1)
         IN shorter \cup { Append(q, x) : q \in shorter, x \in S }

InsertAt(seq, i, x) == SubSeq(seq, 1, i) \o <<x>> \o SubSeq(seq, i + 1, Len(seq))
RemoveAt(seq, i) == SubSeq(seq, 1, i - 1) \o SubSeq(seq, i + 1, Len(seq))
Reverse(seq) == [i \in 1..Len(seq) |-> seq[Len(seq) + 1 - i]]

KeyUnchanged ==
    UNCHANGED <<streamVars, pc, cacheVars, pipeVars, authVars, resolverVars, cacheUses>>

\* a thinking block is put into the content (the injection puts it first)
KeyAddThinking ==
    /\ pc = "keying"
    /\ Cardinality({i \in 1..Len(kContent.blocks) :
                       IsThinkingType(kContent.blocks[i])}) < MaxKeyThinking
    /\ \E i \in 0..Len(kContent.blocks), tb \in KeyThinkingBlocks :
          kContent' = ArrayContent(InsertAt(kContent.blocks, i, tb))
    /\ kKey' = generateCacheKey(kContent')
    /\ KeyUnchanged

\* a thinking block is stripped from the content (the client strips them)
KeyRemoveThinking ==
    /\ pc = "keying"
    /\ \E i \in 1..Len(kContent.blocks) :
          /\ IsThinkingType(kContent.blocks[i])
          /\ kContent' = ArrayContent(RemoveAt(kContent.blocks, i))
    /\ kKey' = generateCacheKey(kContent')
    /\ KeyUnchanged

\* the client sends a tool input back with its keys in the other order
KeyReorderInput ==
    /\ pc = "keying"
    /\ \E i \in 1..Len(kContent.blocks) :
          /\ kContent.blocks[i].type = "tool_use"
          /\ Len(kContent.blocks[i].input) > 1
          /\ kContent' = ArrayContent([kContent.blocks EXCEPT
                             ![i].input = Reverse(@)])
    /\ kKey' = generateCacheKey(kContent')
    /\ KeyUnchanged

InitKey ==
    /\ \E model \in OriginalModels : StreamInit(model)
    /\ transformToOpenAIFormat = TRUE
    /\ pc = "keying"
    /\ memoryCache = <<>>
    /\ redisStore = <<>>
    /\ redisConfigured = FALSE
    /\ now = 1
    /\ request = NoRequest
    /\ outcome = NoOutcome
    /\ nRequests = 0
    /\ lastResponse = NoResponse
    /\ API_KEY = <<>>
    /\ kContent \in { ArrayContent(bs) : bs \in SeqsUpTo(KeyBlocks, MaxKeyBlocks) }
    /\ kKey = generateCacheKey(kContent)
    /\ AuthIdle
    /\ ResolverIdle
    /\ cacheUses = <<>>

NextKey ==
    \/ KeyAddThinking
    \/ KeyRemoveThinking
    \/ KeyReorderInput

SpecKey == InitKey /\ [][NextKey]_vars

-----------------------------------------------------------------------------
(* The pipeline: requests handled one after the other, each answered at    *)
(* once or dispatched and followed by the upstream's response              *)

MaxRequests == 2       \* requests handled

ThinkingModel == <<"claude", "4", "sonnet", "high", "thinking">>

OtherModel == <<"gpt", "4o">>
OtherThinkingModel == <<"gpt", "5", "thinking">>
RequestModels == { ThinkingModel, <<"claude", "4", "sonnet", "high">>, OtherModel }
ApiKeys == { <<"secret">>, <<"other">> }
Paths == { "/v1/chat/completions", "/v1/messages" }
Systems ==
    { [has |-> FALSE, blocks |-> <<>>], [has |-> TRUE, blocks |-> <<PersonaLine>>],
      [has |-> TRUE, blocks |-> << <<"Be brief.">> >>] }
Temperatures == { "undefined", "0.2" }

UserMessage == Message("user", StringContent(<<"q">>))
SystemMessage == Message("system", StringContent(<<"s", "y", "s">>))
AssistantMessage(c) == Message("assistant", c)

EmptyToolUse == ToolUseBlock(<<"tu_", "1">>, <<"f">>, <<>>)

\* what the client may send back as an earlier assistant turn
HistoryContents ==
    { StringContent(<<"H">>),
      ArrayContent(<<TextBlock(<<"H">>)>>),
      ArrayContent(<<TextBlock(<<"H">>), EmptyToolUse>>),
      ArrayContent(<<EmptyToolUse>>),
      ArrayContent(<<ThinkingBlock(<<"t">>, <<"s">>), TextBlock(<<"H">>)>>) }

MessageLists ==
    { [has |-> FALSE, list |-> <<>>],
      [has |-> TRUE, list |-> <<>>],
      [has |-> TRUE, list |-> <<UserMessage>>],
      [has |-> TRUE, list |-> <<SystemMessage, UserMessage>>],
      [has |-> TRUE, list |-> <<UserMessage, AssistantMessage(StringContent(<<"H">>)),
                                UserMessage,
                                AssistantMessage(ArrayContent(<<TextBlock(<<"Z">>)>>)),
                                UserMessage>>] }
    \cup { [has |-> TRUE, list |-> <<UserMessage, AssistantMessage(c), UserMessage>>] :
             c \in HistoryContents }

\* the requests of a client: chat requests for a Claude model in every
\* combination of their fields, and key probes and requests for another
\* provider's model with a plain body
Requests ==
    { Request(model, stream, <<"secret">>, FALSE, path, system, messages, temperature, 0) :
        model \in RequestModels \ {OtherModel}, stream \in BOOLEAN,
        path \in Paths, system \in Systems, messages \in MessageLists,
        temperature \in Temperatures }
    \cup
    { Request(model, stream, apiKey, probe, "/v1/chat/completions",
              [has |-> FALSE, blocks |-> <<>>],
              [has |-> TRUE, list |-> <<UserMessage>>], "undefined", 0) :
        model \in RequestModels \cup {OtherThinkingModel}, stream \in BOOLEAN,
        apiKey \in ApiKeys, probe \in BOOLEAN }

ThinkingEvents(i) ==
    <<ContentBlockStart(i, "thinking"), ThinkingDelta(i, <<"t">>),
      SignatureDelta(i, <<"s">>), ContentBlockStop(i)>>
TextEvents(i) ==
    <<ContentBlockStart(i, "text"), TextDelta(i, <<"H">>), ContentBlockStop(i)>>
ToolUseEvents(i) ==
    <<ContentBlockStart(i, "tool_use"), InputJsonDelta(i, <<"{", "}">>),
      ContentBlockStop(i)>>
StopEvents(r) == <<MessageDelta(r, 2), MessageStop>>

\* the streams the upstream may answer with, each with the content an
\* assistant turn made of it has once thinking is stripped
StreamedResponses(model) ==
    { [events |-> <<MessageStart(model, 0)>> \o ThinkingEvents(0) \o TextEvents(1)
                  \o StopEvents(<<"end_turn">>),
       content |-> <<TextBlock(<<"H">>)>>],
      [events |-> <<MessageStart(model, 0)>> \o ThinkingEvents(0) \o TextEvents(1)
                  \o ToolUseEvents(2) \o StopEvents(<<"tool_use">>),
       content |-> <<TextBlock(<<"H">>), EmptyToolUse>>],
      [events |-> <<MessageStart(model, 0)>> \o ThinkingEvents(0) \o ToolUseEvents(1)
                  \o StopEvents(<<"tool_use">>),
       content |-> <<EmptyToolUse>>],
      [events |-> <<MessageStart(model, 0)>> \o TextEvents(0)
                  \o StopEvents(<<"end_turn">>),
       content |-> <<TextBlock(<<"H">>)>>] }

\* the full responses the upstream may answer with
PipelineResponses(model) ==
    { FullResponse(<<"msg_", "A">>, model, c, <<"end_turn">>, 2, 2, 0) :
        c \in ResponseContents }

\* the bytes of the events
SerializeAll(events) == Concat([i \in 1..Len(events) |-> Serialize(events[i])])

\* the handler runs from its first line to an early answer (the 401 of the
\* API key check, the 404 of the gateway, the reply to the key check of the
\* client) or to its await of getAccessToken; what it would answer without a
\* token tells which
messagesFn ==
    /\ pc = "idle"
    /\ nRequests < MaxRequests
    /\ \E req \in Requests :
          LET early == HandleRequest(req, API_KEY, <<>>, memoryCache, redisStore,
                                     redisConfigured, TRUE).outcome
          IN /\ request' = req
             /\ originalModel' = req.model
             /\ transformToOpenAIFormat' = early.transform
             /\ state' = createConverterState(req.model)
             /\ out' = <<>>
             /\ IF early.kind = "no_token"
                THEN pc' = "token" /\ outcome' = NoOutcome
                ELSE pc' = "returned" /\ outcome' = early
    /\ nRequests' = nRequests + 1
    /\ UNCHANGED <<wire, consumed, upstream, sentEvents, cacheVars, lastResponse,
                   API_KEY, keyVars, authVars, resolverVars, cacheUses>>

\* getAccessToken resolves: without a token the handler answers 401, with
\* one it runs to fetch
messagesFnWithToken ==
    /\ pc = "token"
    /\ \E oauthToken \in {<<>>, <<"tok">>}, redisOk \in BOOLEAN :
          LET h == HandleRequest(request, API_KEY, oauthToken, memoryCache, redisStore,
                                 redisConfigured, redisOk)
          IN /\ redisConfigured \/ redisOk
             /\ outcome' = h.outcome
             /\ memoryCache' = h.memory
             /\ pc' = IF h.outcome.kind = "dispatched" THEN "dispatched" ELSE "returned"
    /\ UNCHANGED <<streamVars, redisStore, redisConfigured, now, request, nRequests,
                   lastResponse, API_KEY, keyVars, authVars, resolverVars, cacheUses>>

\* the handler calls fetch with the body and the headers; of the request it
\* keeps isStreaming, and originalModel and transformToOpenAIFormat
Fetch ==
    /\ pc = "dispatched"
    /\ pc' = "fetching"
    /\ request' = NoRequest
    /\ outcome' = [Outcome("fetching") EXCEPT !.stream = outcome.stream,
                                              !.model = outcome.model,
                                              !.transform = outcome.transform]
    /\ UNCHANGED <<streamVars, cacheVars, nRequests, lastResponse, API_KEY, keyVars, authVars, resolverVars, cacheUses>>

UpstreamStatuses == {401, 429, 500}
UpstreamTexts == { <<>>, <<"overloaded">> }

AuthenticationFailed ==
    <<"Authentication failed",
      "OAuth token may be expired. Please re-authenticate using /auth/login/start">>

\* ErrorAnswer answering every upstream error with the upstream's status and
\* text
ErrorAnswerPassThrough(status, error) ==
    [kind |-> "upstream_error", status |-> status, body |-> <<error>>]

\* the answer to an upstream response that is not ok, error being its text
ErrorAnswer(status, error) ==
    IF status = 401
    THEN [kind |-> "upstream_401", status |-> 401,
          body |-> AuthenticationFailed \o <<error>>]
    ELSE [kind |-> "upstream_error", status |-> status, body |-> <<error>>]

\* fetch resolves with a status that is not 2xx: the answer is a 401 or the
\* upstream's status and text
UpstreamError ==
    /\ pc = "fetching"
    /\ \E status \in UpstreamStatuses, error \in UpstreamTexts :
          LET answer == ErrorAnswer(status, error)
          IN outcome' = [outcome EXCEPT
                           !.upstreamStatus = status, !.upstreamText = error,
                           !.kind = answer.kind, !.status = answer.status,
                           !.body = answer.body]
    /\ pc' = "returned"
    /\ UNCHANGED <<streamVars, cacheVars, request, nRequests, lastResponse, API_KEY,
                   keyVars, authVars, resolverVars, cacheUses>>

\* fetch rejects: the catch block answers 500
FetchFails ==
    /\ pc = "fetching"
    /\ outcome' = [outcome EXCEPT !.kind = "proxy_error", !.status = 500,
                                  !.body = <<"Proxy error", "fetch failed">>]
    /\ pc' = "returned"
    /\ UNCHANGED <<streamVars, cacheVars, request, nRequests, lastResponse, API_KEY,
                   keyVars, authVars, resolverVars, cacheUses>>

\* the upstream answers a request that does not stream with a full response
JsonResponse ==
    /\ pc = "fetching"
    /\ ~outcome.stream
    /\ \E r \in PipelineResponses(outcome.model) :
          out' = IF transformToOpenAIFormat
                 THEN <<convertNonStreamingResponse(r, originalModel)>>
                 ELSE <<[type |-> "payload", response |-> r]>>
    /\ outcome' = [Outcome("completed") EXCEPT !.status = 200,
                                               !.transform = transformToOpenAIFormat]
    /\ pc' = "returned"
    /\ UNCHANGED <<originalModel, state, wire, consumed, upstream, sentEvents,
                   transformToOpenAIFormat, cacheVars, request, nRequests,
                   lastResponse, API_KEY, keyVars, authVars, resolverVars, cacheUses>>

\* the upstream answers a streaming request with a stream, or with all but
\* the last back events of it and ends its body, or the read fails after them: the stream
\* callback translates (or passes through) what it reads, and when the read
\* ended with done it runs the post-stream caching
StreamResponse ==
    /\ pc = "fetching"
    /\ outcome.stream
    /\ \E r \in StreamedResponses(outcome.model), back \in {0, 2},
          readFails \in BOOLEAN :
          LET cut == Len(r.events) - back
               bytes == SerializeAll(SubSeq(r.events, 1, cut))
              res == processChunk(state, bytes)
              st == IF transformToOpenAIFormat THEN res.state ELSE state
          IN /\ readFails => back = 2
             /\ state' = st
             /\ out' = IF transformToOpenAIFormat THEN res.results
                       ELSE IF bytes = <<>> THEN <<>> ELSE <<RawResult(bytes)>>
             /\ IF readFails THEN UNCHANGED <<memoryCache, redisStore, now>>
                ELSE PostStreamCaching(st)
             /\ lastResponse' =
                   [clean |-> cut = Len(r.events) /\ ~readFails,
                    captured |-> getThinkingBlockFromState(st).present,
                    content |-> r.content]
    /\ outcome' = [Outcome("streamed") EXCEPT !.status = 200,
                                              !.transform = transformToOpenAIFormat]
    /\ pc' = "returned"
    /\ UNCHANGED <<originalModel, wire, consumed, upstream, sentEvents,
                   transformToOpenAIFormat, redisConfigured, request, nRequests,
                   API_KEY, keyVars, authVars, resolverVars, cacheUses>>

\* the answer has been sent: the handler's locals are gone
Finish ==
    /\ pc = "returned"
    /\ pc' = "idle"
    /\ request' = NoRequest
    /\ outcome' = NoOutcome
    /\ originalModel' = ThinkingModel
    /\ transformToOpenAIFormat' = TRUE
    /\ state' = createConverterState(ThinkingModel)
    /\ out' = <<>>
    /\ UNCHANGED <<wire, consumed, upstream, sentEvents, cacheVars, nRequests,
                   lastResponse, API_KEY, keyVars, authVars, resolverVars, cacheUses>>

InitPipeline ==
    /\ StreamInit(ThinkingModel)
    /\ transformToOpenAIFormat = TRUE
    /\ pc = "idle"
    /\ memoryCache = <<>>
    /\ redisStore = <<>>
    /\ redisConfigured \in BOOLEAN
    /\ now = 1
    /\ request = NoRequest
    /\ outcome = NoOutcome
    /\ nRequests = 0
    /\ lastResponse = NoResponse
    /\ API_KEY \in { <<>>, <<"secret">> }
    /\ kContent = StringContent(<<>>)
    /\ kKey = generateCacheKey(StringContent(<<>>))
    /\ AuthIdle
    /\ ResolverIdle
    /\ cacheUses = <<>>

NextPipeline ==
    \/ messagesFn
    \/ messagesFnWithToken
    \/ Fetch
    \/ UpstreamError
    \/ FetchFails
    \/ JsonResponse
    \/ StreamResponse
    \/ Finish

SpecPipeline == InitPipeline /\ [][NextPipeline]_vars

\* The pipeline in front of an upstream that answers no request with a 2xx:
\* the steps of the handler up to fetch, and its error answers
NextGate ==
    \/ messagesFn
    \/ messagesFnWithToken
    \/ Fetch
    \/ UpstreamError
    \/ FetchFails
    \/ Finish

SpecGate == InitPipeline /\ [][NextGate]_vars

-----------------------------------------------------------------------------
(* The translator fed one event at a time, each as one whole line, and the *)
(* converter of full responses: tool-input fragments of every kind, and    *)
(* every stop_reason                                                       *)

MaxFeed == 4        \* events fed to one converter state

\* the fragments {"q"  {"q":"fo  {"q":"foo"}  and the empty fragment: each is
\* the cumulative successor of the ones before it, and a delta after the
\* ones that follow it
Fragments ==
    { <<>>,
      <<"{", "\"", "q", "\"">>,
      <<"{", "\"", "q", "\"", ":", "\"", "f", "o">>,
      <<"{", "\"", "q", "\"", ":", "\"", "f", "o", "o", "\"", "}">> }

\* the stop_reason values of the upstream, and none
FeedStopReasons ==
    { <<>>, <<"end_turn">>, <<"tool_use">>, <<"max_tokens">>, <<"stop_sequence">> }

\* a full response as the upstream sent it: an object of type "message"
MessageObject(r) ==
    [Ev("message") EXCEPT !.has_message = TRUE, !.m_id = r.id, !.m_model = r.model,
                          !.m_stop_reason = r.stop_reason]

\* nothing is fed after the event that ends a message
CanFeed ==
    /\ pc = "feeding"
    /\ Len(sentEvents) < MaxFeed
    /\ sentEvents # <<>> =>
          sentEvents[Len(sentEvents)].type \notin {"message_delta", "message"}

\* one call of processChunk with the line of event e
Feed(e) ==
    /\ CanFeed
    /\ LET r == processChunk(state, Serialize(e))
       IN /\ state' = r.state
          /\ out' = out \o r.results
    /\ sentEvents' = Append(sentEvents, e)
    /\ UNCHANGED <<originalModel, wire, consumed, upstream, pc,
                   transformToOpenAIFormat, cacheVars, pipeVars, keyVars, authVars, resolverVars, cacheUses>>

FeedToolStart == Feed(ContentBlockStart(0, "tool_use"))

FeedFragment == \E partial_json \in Fragments : Feed(InputJsonDelta(0, partial_json))

FeedMessageDelta == \E stop_reason \in FeedStopReasons : Feed(MessageDelta(stop_reason, 0))

\* a response that is not streamed is converted
FeedFullResponse ==
    /\ CanFeed
    /\ \E stop_reason \in FeedStopReasons :
          LET r == FullResponse(<<"msg_", "A">>, originalModel, <<TextBlock(<<"H">>)>>,
                                stop_reason, 2, 2, 0)
          IN /\ out' = Append(out, convertNonStreamingResponse(r, originalModel))
             /\ sentEvents' = Append(sentEvents, MessageObject(r))
    /\ UNCHANGED <<originalModel, state, wire, consumed, upstream, pc,
                   transformToOpenAIFormat, cacheVars, pipeVars, keyVars, authVars, resolverVars, cacheUses>>

InitFeed ==
    /\ StreamInit(ThinkingModel)
    /\ transformToOpenAIFormat = TRUE
    /\ pc = "feeding"
    /\ memoryCache = <<>>
    /\ redisStore = <<>>
    /\ redisConfigured = FALSE
    /\ now = 1
    /\ request = NoRequest
    /\ outcome = NoOutcome
    /\ nRequests = 0
    /\ lastResponse = NoResponse
    /\ API_KEY = <<>>
    /\ kContent = StringContent(<<>>)
    /\ kKey = generateCacheKey(StringContent(<<>>))
    /\ AuthIdle
    /\ ResolverIdle
    /\ cacheUses = <<>>

NextFeed ==
    \/ FeedToolStart
    \/ FeedFragment
    \/ FeedMessageDelta
    \/ FeedFullResponse

SpecFeed == InitFeed /\ [][NextFeed]_vars

-----------------------------------------------------------------------------
(* A thinking block from the upstream's stream to the next request: the    *)
(* capture, the cache write after the stream, a restart of the process     *)
(* that empties the local tier, and the injection into the history         *)

MaxThinkingDeltas == 2   \* thinking deltas, and signature deltas, of a block

ThinkingDeltaTexts == { <<"t">>, <<"u", "v">> }
SignatureDeltaTexts == { <<"s">>, <<"g", "h">> }

\* the stream of a response with one thinking block (inline is the thinking
\* field of its content_block_start) and the text H
ReplayEvents(model, inline, thinkings, signatures) ==
    <<MessageStart(model, 0),
      [ContentBlockStart(0, "thinking") EXCEPT !.cb_thinking = inline]>>
    \o [i \in 1..Len(thinkings) |-> ThinkingDelta(0, thinkings[i])]
    \o [i \in 1..Len(signatures) |-> SignatureDelta(0, signatures[i])]
    \o <<ContentBlockStop(0)>> \o TextEvents(1) \o StopEvents(<<"end_turn">>)

\* the stream callback of messagesFn for a whole stream: the translation,
\* then the caching after the loop
ReplayStream ==
    /\ pc = "replay"
    /\ \E inline \in {<<>>, <<"i">>},
          thinkings \in SeqsUpTo(ThinkingDeltaTexts, MaxThinkingDeltas),
          signatures \in SeqsUpTo(SignatureDeltaTexts, MaxThinkingDeltas) :
          LET events == ReplayEvents(originalModel, inline, thinkings, signatures)
              res == processChunk(state, SerializeAll(events))
          IN /\ sentEvents' = events
             /\ state' = res.state
             /\ out' = res.results
             /\ PostStreamCaching(res.state)
    /\ pc' = "cached"
    /\ UNCHANGED <<originalModel, wire, consumed, upstream, transformToOpenAIFormat,
                   redisConfigured, pipeVars, keyVars, authVars, resolverVars, cacheUses>>

\* the process is replaced by a new one, whose memoryCache is empty
ColdStart ==
    /\ pc = "cached"
    /\ memoryCache' = <<>>
    /\ pc' = "cold"
    /\ UNCHANGED <<streamVars, redisStore, redisConfigured, now, pipeVars, keyVars,
                   authVars, resolverVars, cacheUses>>

\* messagesFn injects into the messages of the next request, whose history
\* holds the text of the response
ReplayInject ==
    /\ pc \in {"cached", "cold"}
    /\ \E content \in {StringContent(<<"H">>), ArrayContent(<<TextBlock(<<"H">>)>>)},
          redisOk \in BOOLEAN :
          LET inj == injectCachedThinkingBlocks(
                         <<UserMessage, AssistantMessage(content), UserMessage>>,
                         memoryCache, redisStore, redisConfigured, redisOk)
          IN /\ redisConfigured \/ redisOk
             /\ outcome' = [Outcome("dispatched") EXCEPT
                               !.has_messages = TRUE,
                               !.messages = inj.messages,
                               !.injected = TRUE,
                               !.injectedCount = inj.injectedCount]
             /\ memoryCache' = inj.memory
    /\ pc' = IF pc = "cold" THEN "replayed_cold" ELSE "replayed"
    /\ UNCHANGED <<streamVars, redisStore, redisConfigured, now, request, nRequests,
                   lastResponse, API_KEY, keyVars, authVars, resolverVars, cacheUses>>

InitReplay ==
    /\ StreamInit(ThinkingModel)
    /\ transformToOpenAIFormat = TRUE
    /\ pc = "replay"
    /\ memoryCache = <<>>
    /\ redisStore = <<>>
    /\ redisConfigured \in BOOLEAN
    /\ now = 1
    /\ request = NoRequest
    /\ outcome = NoOutcome
    /\ nRequests = 0
    /\ lastResponse = NoResponse
    /\ API_KEY = <<>>
    /\ kContent = StringContent(<<>>)
    /\ kKey = generateCacheKey(StringContent(<<>>))
    /\ AuthIdle
    /\ ResolverIdle
    /\ cacheUses = <<>>

NextReplay ==
    \/ ReplayStream
    \/ ColdStart
    \/ ReplayInject

SpecReplay == InitReplay /\ [][NextReplay]_vars

-----------------------------------------------------------------------------
(* Model resolution: a model string in the spellings a client may give it  *)

MaxBlanks == 1     \* blanks a client leaves around the model string

\* the words model strings are made of, in the spellings clients use
ModelWords ==
    { "claude", "Claude", "CLAUDE", "opus", "Opus", "OPUS", "sonnet", "SONNET",
      "haiku", "HAIKU", "high", "HIGH", "thinking", "Thinking", "THINKING",
      "gpt", "GPT", "3", "4", "4.5", "5", "4o" }

\* the spellings of the word w that differ from it in case only
Spellings(w) == { u \in ModelWords : LowerWord(u) = LowerWord(w) }

\* model strings in lowercase: the keys of MODEL_VARIANTS, names with
\* "thinking" in them, upstream model names, names of other providers and
\* the empty string
LowercaseModels ==
    Range(VariantKeys)
    \cup { <<"claude", "opus", "thinking">>, <<"claude", "haiku", "thinking">>,
           <<"claude", "thinking">>, <<"opus", "haiku", "thinking">>,
           <<"gpt", "5", "thinking">> }
    \cup { OpusModel, <<"claude", "3", "haiku">>, <<"gpt", "4o">>, <<>> }

Blanks(m) == Cardinality({ i \in 1..Len(m) : m[i] = " " })

\* the client spells one word of the model string in another case
Respell ==
    /\ pc = "resolve"
    /\ \E i \in 1..Len(clientModel) :
          \E u \in Spellings(clientModel[i]) \ {clientModel[i]} :
             clientModel' = [clientModel EXCEPT ![i] = u]
    /\ UNCHANGED <<streamVars, pc, cacheVars, pipeVars, keyVars, authVars, resolved,
                   cacheUses>>

\* the client leaves a blank before or after the model string
Pad ==
    /\ pc = "resolve"
    /\ Blanks(clientModel) < MaxBlanks
    /\ \/ clientModel' = <<" ">> \o clientModel
       \/ clientModel' = clientModel \o <<" ">>
    /\ UNCHANGED <<streamVars, pc, cacheVars, pipeVars, keyVars, authVars, resolved,
                   cacheUses>>

\* resolveModelVariant is called with the model string
Resolve ==
    /\ pc = "resolve"
    /\ resolved' = resolveModelVariant(clientModel)
    /\ pc' = "resolved"
    /\ UNCHANGED <<streamVars, cacheVars, pipeVars, keyVars, authVars, clientModel,
                   cacheUses>>

InitResolve ==
    /\ StreamInit(ThinkingModel)
    /\ transformToOpenAIFormat = TRUE
    /\ pc = "resolve"
    /\ memoryCache = <<>>
    /\ redisStore = <<>>
    /\ redisConfigured = FALSE
    /\ now = 1
    /\ request = NoRequest
    /\ outcome = NoOutcome
    /\ nRequests = 0
    /\ lastResponse = NoResponse
    /\ API_KEY = <<>>
    /\ kContent = StringContent(<<>>)
    /\ kKey = generateCacheKey(StringContent(<<>>))
    /\ AuthIdle
    /\ clientModel \in LowercaseModels
    /\ resolved = NoVariant
    /\ cacheUses = <<>>

NextResolve ==
    \/ Respell
    \/ Pad
    \/ Resolve

SpecResolve == InitResolve /\ [][NextResolve]_vars

-----------------------------------------------------------------------------
(* The thinking cache used on its own: writes and lookups of a process     *)
(* whose local tier is nearly full                                         *)

MaxCacheWrites == 3    \* writes made after the ones that filled the local tier
MaxLookups == 1        \* lookups made

\* the writes the process has made before: one fewer than fill the local tier
Prefilled == MAX_MEMORY_CACHE_SIZE - 1

\* the n-th assistant content cached, and the thinking block cached under it
CacheContent(n) == ArrayContent(<<TextBlock(NumberToString(n))>>)
CachedBlock == ThinkingBlock(<<"t">>, <<"s">>)

\* the contents looked up: the one cached first and the one whose write
\* fills the local tier
LookupContents == {1, MAX_MEMORY_CACHE_SIZE}

\* one use of the cache: op is "write" or "lookup", hit says whether a
\* lookup found a block, redisOk whether the persistent tier answered
Use(op, key, hit, redisOk) == [op |-> op, key |-> key, hit |-> hit, redisOk |-> redisOk]

RECURSIVE Prefill(_, _, _, _)
\* the two tiers after cacheThinkingBlock was called at instant 1 for the
\* contents lo..hi in order, from the tiers c: the calls for the first half
\* of lo..hi, then, from the tiers they leave, those for the second half
Prefill(c, lo, hi, configured) ==
    IF lo > hi THEN c
    ELSE IF lo = hi
         THEN cacheThinkingBlock(c.memory, c.redis, configured, TRUE,
                                 CacheContent(lo).blocks, CachedBlock, 1)
    ELSE CHOOSE r \in
           { Prefill(half, (lo + hi) \div 2 + 1, hi, configured) :
               half \in { Prefill(c, lo, (lo + hi) \div 2, configured) } } : TRUE

Writes == Cardinality({ i \in 1..Len(cacheUses) : cacheUses[i].op = "write" })
Lookups == Cardinality({ i \in 1..Len(cacheUses) : cacheUses[i].op = "lookup" })

\* cacheThinkingBlock is called for the next content
CacheWrite ==
    /\ pc = "cache"
    /\ Writes < Prefilled + MaxCacheWrites
    /\ \E redisOk \in BOOLEAN :
          LET content == CacheContent(Writes + 1)
              c == cacheThinkingBlock(memoryCache, redisStore, redisConfigured, redisOk,
                                      content.blocks, CachedBlock, now)
          IN /\ redisConfigured \/ redisOk
             /\ memoryCache' = c.memory
             /\ redisStore' = c.redis
             /\ cacheUses' = Append(cacheUses,
                                    Use("write", generateCacheKey(content), FALSE, redisOk))
    /\ UNCHANGED <<streamVars, pc, redisConfigured, now, pipeVars, keyVars, authVars,
                   resolverVars>>

\* getCachedThinkingBlock is called for a content cached before
CacheLookup ==
    /\ pc = "cache"
    /\ Lookups < MaxLookups
    /\ \E n \in LookupContents, redisOk \in BOOLEAN :
          LET c == getCachedThinkingBlock(memoryCache, redisStore, redisConfigured,
                                          redisOk, CacheContent(n))
          IN /\ redisConfigured \/ redisOk
             /\ n <= Writes
             /\ memoryCache' = c.memory
             /\ cacheUses' = Append(cacheUses,
                                    Use("lookup", generateCacheKey(CacheContent(n)),
                                        c.hit, redisOk))
    /\ UNCHANGED <<streamVars, pc, redisStore, redisConfigured, now, pipeVars, keyVars,
                   authVars, resolverVars>>

\* a millisecond passes
CacheTick ==
    /\ pc = "cache"
    /\ now < MaxClock
    /\ now' = now + 1
    /\ UNCHANGED <<streamVars, pc, memoryCache, redisStore, redisConfigured, pipeVars,
                   keyVars, authVars, resolverVars, cacheUses>>

InitCache ==
    /\ StreamInit(ThinkingModel)
    /\ transformToOpenAIFormat = TRUE
    /\ pc = "cache"
    /\ redisConfigured \in BOOLEAN
    /\ \E c \in { Prefill([memory |-> <<>>, redis |-> <<>>], 1, Prefilled,
                           redisConfigured) } :
          /\ memoryCache = c.memory
          /\ redisStore = c.redis
    /\ now = 1
    /\ request = NoRequest
    /\ outcome = NoOutcome
    /\ nRequests = 0
    /\ lastResponse = NoResponse
    /\ API_KEY = <<>>
    /\ kContent = StringContent(<<>>)
    /\ kKey = generateCacheKey(StringContent(<<>>))
    /\ AuthIdle
    /\ ResolverIdle
    /\ cacheUses = [n \in 1..Prefilled |->
                       Use("write", generateCacheKey(CacheContent(n)), FALSE, TRUE)]

NextCache ==
    \/ CacheWrite
    \/ CacheLookup
    \/ CacheTick

SpecCache == InitCache /\ [][NextCache]_vars

-----------------------------------------------------------------------------
(* The converter of full responses on the responses the upstream may give  *)

MaxConvertBlocks == 3     \* content blocks of a full response

ConvertBlocks ==
    { TextBlock(<<"H">>), TextBlock(<<"Z">>), TextBlock(<<>>), ThinkingBlock(<<"t">>, <<"s">>),
      ToolUseBlock(<<"tu_", "1">>, <<"f">>, <<>>),
      ToolUseBlock(<<"tu_", "2">>, <<"g">>, << <<(<<"b">>), (<<"1">>)>> >>) }

\* the usage of a full response: absent, or its three token counts
ConvertUsages ==
    { [has |-> FALSE, input |-> 0, output |-> 0, cache_read |-> 0],
      [has |-> TRUE, input |-> 0, output |-> 0, cache_read |-> 0],
      [has |-> TRUE, input |-> 5, output |-> 3, cache_read |-> 2] }

ConvertResponses ==
    { [FullResponse(<<"msg_", "A">>, SonnetModel, c, r, u.input, u.output, u.cache_read)
         EXCEPT !.has_usage = u.has] :
        c \in SeqsUpTo(ConvertBlocks, MaxConvertBlocks),
        r \in {<<"end_turn">>, <<"tool_use">>}, u \in ConvertUsages }

\* fetch resolves with a 2xx response that is not a stream: its body
UpstreamResponds ==
    /\ pc = "awaiting"
    /\ \E r \in ConvertResponses : wire' = <<r>>
    /\ pc' = "responded"
    /\ UNCHANGED <<originalModel, state, consumed, out, upstream, sentEvents,
                   transformToOpenAIFormat, cacheVars, pipeVars, keyVars, authVars,
                   resolverVars, cacheUses>>

\* response.json(), then convertNonStreamingResponse of it
Convert ==
    /\ pc = "responded"
    /\ consumed' = wire
    /\ wire' = <<>>
    /\ out' = <<convertNonStreamingResponse(wire[1], originalModel)>>
    /\ pc' = "converted"
    /\ UNCHANGED <<originalModel, state, upstream, sentEvents,
                   transformToOpenAIFormat, cacheVars, pipeVars, keyVars, authVars,
                   resolverVars, cacheUses>>

InitConvert ==
    /\ \E model \in {ThinkingModel, <<>>} : StreamInit(model)
    /\ transformToOpenAIFormat = TRUE
    /\ pc = "awaiting"
    /\ memoryCache = <<>>
    /\ redisStore = <<>>
    /\ redisConfigured = FALSE
    /\ now = 1
    /\ request = NoRequest
    /\ outcome = NoOutcome
    /\ nRequests = 0
    /\ lastResponse = NoResponse
    /\ API_KEY = <<>>
    /\ kContent = StringContent(<<>>)
    /\ kKey = generateCacheKey(StringContent(<<>>))
    /\ AuthIdle
    /\ ResolverIdle
    /\ cacheUses = <<>>

NextConvert ==
    \/ UpstreamResponds
    \/ Convert

SpecConvert == InitConvert /\ [][NextConvert]_vars

-----------------------------------------------------------------------------
(* The translator fed the events of one streamed message that carry usage, *)
(* up to message_stop                                                      *)

MaxUsageEvents == 4     \* events fed to one converter state

\* the usage a message_start or a message_delta may carry
UsageCounts ==
    { [input |-> 0, output |-> 0, cache_read |-> 0],
      [input |-> 0, output |-> 3, cache_read |-> 0],
      [input |-> 5, output |-> 1, cache_read |-> 2],
      [input |-> 0, output |-> 0, cache_read |-> 2] }

\* one call of processChunk with the line of event e; nothing follows
\* message_stop
FeedUsage(e) ==
    /\ pc = "metering"
    /\ Len(sentEvents) < MaxUsageEvents
    /\ sentEvents # <<>> => sentEvents[Len(sentEvents)].type # "message_stop"
    /\ LET r == processChunk(state, Serialize(e))
       IN /\ state' = r.state
          /\ out' = out \o r.results
    /\ sentEvents' = Append(sentEvents, e)
    /\ UNCHANGED <<originalModel, wire, consumed, upstream, pc,
                   transformToOpenAIFormat, cacheVars, pipeVars, keyVars, authVars,
                   resolverVars, cacheUses>>

FeedMessageStart ==
    \E u \in UsageCounts :
       FeedUsage([Ev("message_start") EXCEPT
                    !.has_message = TRUE, !.m_id = <<"msg_", "A">>,
                    !.m_model = SonnetModel, !.has_m_usage = TRUE,
                    !.mu_input = u.input, !.mu_output = u.output,
                    !.mu_cache_read = u.cache_read])

FeedText == FeedUsage(TextDelta(0, <<"H">>))

FeedUsageDelta ==
    \E u \in UsageCounts :
       FeedUsage([Ev("message_delta") EXCEPT
                    !.d_stop_reason = <<"end_turn">>,
                    !.u_input = u.input, !.u_output = u.output,
                    !.u_cache_read = u.cache_read])

FeedMessageStop == FeedUsage(MessageStop)

InitUsage ==
    /\ StreamInit(ThinkingModel)
    /\ transformToOpenAIFormat = TRUE
    /\ pc = "metering"
    /\ memoryCache = <<>>
    /\ redisStore = <<>>
    /\ redisConfigured = FALSE
    /\ now = 1
    /\ request = NoRequest
    /\ outcome = NoOutcome
    /\ nRequests = 0
    /\ lastResponse = NoResponse
    /\ API_KEY = <<>>
    /\ kContent = StringContent(<<>>)
    /\ kKey = generateCacheKey(StringContent(<<>>))
    /\ AuthIdle
    /\ ResolverIdle
    /\ cacheUses = <<>>

NextUsage ==
    \/ FeedMessageStart
    \/ FeedText
    \/ FeedUsageDelta
    \/ FeedMessageStop

SpecUsage == InitUsage /\ [][NextUsage]_vars

-----------------------------------------------------------------------------
(* The stream of a response with several thinking blocks, from its first   *)
(* line to the caching after the loop                                      *)

MaxThinkingBlocks == 2      \* thinking blocks of one response

\* a thinking block as the upstream streams it: the thinking field of its
\* content_block_start, its thinking deltas and its signature deltas; a
\* redacted_thinking block has none of them
BlockShape(type, inline, thinkings, signatures) ==
    [type |-> type, inline |-> inline, thinkings |-> thinkings,
     signatures |-> signatures]

BlockShapes ==
    { BlockShape("thinking", inline, thinkings, signatures) :
        inline \in {<<>>, <<"i">>},
        thinkings \in SeqsUpTo(ThinkingDeltas, 1),
        signatures \in SeqsUpTo(SignatureDeltas, 1) }
    \cup { BlockShape("redacted_thinking", <<>>, <<>>, <<>>) }

\* the events of the block of shape b at index i
ShapeEvents(i, b) ==
    <<[ContentBlockStart(i, b.type) EXCEPT !.cb_thinking = b.inline]>>
    \o [k \in 1..Len(b.thinkings) |-> ThinkingDelta(i, b.thinkings[k])]
    \o [k \in 1..Len(b.signatures) |-> SignatureDelta(i, b.signatures[k])]
    \o <<ContentBlockStop(i)>>

\* the stream of a response made of the thinking blocks and the text H
CaptureEvents(model, shapes) ==
    <<MessageStart(model, 0)>>
    \o Concat([i \in 1..Len(shapes) |-> ShapeEvents(i - 1, shapes[i])])
    \o TextEvents(Len(shapes)) \o StopEvents(<<"end_turn">>)

\* the stream callback of messagesFn for a whole stream: the translation,
\* then the caching after the loop
CaptureStream ==
    /\ pc = "capture"
    /\ \E shapes \in SeqsUpTo(BlockShapes, MaxThinkingBlocks) :
          LET events == CaptureEvents(originalModel, shapes)
              res == processChunk(state, SerializeAll(events))
          IN /\ sentEvents' = events
             /\ state' = res.state
             /\ out' = res.results
             /\ PostStreamCaching(res.state)
    /\ pc' = "captured"
    /\ UNCHANGED <<originalModel, wire, consumed, upstream, transformToOpenAIFormat,
                   redisConfigured, pipeVars, keyVars, authVars, resolverVars, cacheUses>>

InitCapture ==
    /\ StreamInit(ThinkingModel)
    /\ transformToOpenAIFormat = TRUE
    /\ pc = "capture"
    /\ memoryCache = <<>>
    /\ redisStore = <<>>
    /\ redisConfigured \in BOOLEAN
    /\ now = 1
    /\ request = NoRequest
    /\ outcome = NoOutcome
    /\ nRequests = 0
    /\ lastResponse = NoResponse
    /\ API_KEY = <<>>
    /\ kContent = StringContent(<<>>)
    /\ kKey = generateCacheKey(StringContent(<<>>))
    /\ AuthIdle
    /\ ResolverIdle
    /\ cacheUses = <<>>

NextCapture == CaptureStream

SpecCapture == InitCapture /\ [][NextCapture]_vars

-----------------------------------------------------------------------------
(* Two connections whose stream callbacks run at once: the reads of the    *)
(* two interleave, each callback holding its own converterState.  In this  *)
(* specification originalModel, state, wire, consumed and out hold one     *)
(* value for each connection.                                              *)

MaxChunkTokens == 3     \* tokens one reader.read() may return

Connections == {1, 2}

\* the model each connection's client asked for
ModelOf(c) == IF c = 1 THEN ThinkingModel ELSE OtherThinkingModel

\* the streams the upstream may answer a connection with
ConcurrentStreams(c) ==
    { SerializeAll(<<MessageStart(SonnetModel, 2)>> \o ThinkingEvents(0) \o TextEvents(1)
                   \o StopEvents(<<"end_turn">>)),
      SerializeAll(<<MessageStart(SonnetModel, 0)>> \o ToolUseEvents(0)
                   \o StopEvents(<<"tool_use">>)) }

\* the loop of the stream callback of connection c, given a converterState
\* that every connection shares
ReadChunkShared(c) ==
    /\ pc = "concurrent"
    /\ wire[c] # <<>>
    /\ \E n \in 1..MaxChunkTokens :
          /\ n <= Len(wire[c])
          /\ LET chunk == SubSeq(wire[c], 1, n)
                 r == processChunk(state[1], chunk)
             IN /\ state' = [k \in Connections |-> r.state]
                /\ out' = [out EXCEPT ![c] = @ \o r.results]
                /\ consumed' = [consumed EXCEPT ![c] = @ \o chunk]
                /\ wire' = [wire EXCEPT ![c] = SubSeq(@, n + 1, Len(@))]
    /\ UNCHANGED <<originalModel, upstream, sentEvents, pc, transformToOpenAIFormat,
                   cacheVars, pipeVars, keyVars, authVars, resolverVars, cacheUses>>

\* one turn of the loop of the stream callback of connection c: reader.read()
\* returns a chunk, processChunk translates it with the converterState of
\* the callback, and the results are written to the client of c
ReadChunkOf(c) ==
    /\ pc = "concurrent"
    /\ wire[c] # <<>>
    /\ \E n \in 1..MaxChunkTokens :
          /\ n <= Len(wire[c])
          /\ LET chunk == SubSeq(wire[c], 1, n)
                 r == processChunk(state[c], chunk)
             IN /\ state' = [state EXCEPT ![c] = r.state]
                /\ out' = [out EXCEPT ![c] = @ \o r.results]
                /\ consumed' = [consumed EXCEPT ![c] = @ \o chunk]
                /\ wire' = [wire EXCEPT ![c] = SubSeq(@, n + 1, Len(@))]
    /\ UNCHANGED <<originalModel, upstream, sentEvents, pc, transformToOpenAIFormat,
                   cacheVars, pipeVars, keyVars, authVars, resolverVars, cacheUses>>

\* each callback has called createConverterState(originalModel) and the
\* upstream has answered each connection
InitConcurrent ==
    /\ originalModel = [c \in Connections |-> ModelOf(c)]
    /\ state = [c \in Connections |-> createConverterState(ModelOf(c))]
    /\ wire \in [Connections -> UNION { ConcurrentStreams(c) : c \in Connections }]
    /\ consumed = [c \in Connections |-> <<>>]
    /\ out = [c \in Connections |-> <<>>]
    /\ upstream = UpstreamInit
    /\ sentEvents = <<>>
    /\ transformToOpenAIFormat = TRUE
    /\ pc = "concurrent"
    /\ memoryCache = <<>>
    /\ redisStore = <<>>
    /\ redisConfigured = FALSE
    /\ now = 1
    /\ request = NoRequest
    /\ outcome = NoOutcome
    /\ nRequests = 0
    /\ lastResponse = NoResponse
    /\ API_KEY = <<>>
    /\ kContent = StringContent(<<>>)
    /\ kKey = generateCacheKey(StringContent(<<>>))
    /\ AuthIdle
    /\ ResolverIdle
    /\ cacheUses = <<>>

NextConcurrent == \E c \in Connections : ReadChunkOf(c)

SpecConcurrent == InitConcurrent /\ [][NextConcurrent]_vars

-----------------------------------------------------------------------------
(* The translator fed pings and events of types it does not know, between  *)
(* the events of one streamed message                                      *)

\* events of a type the translator has no case for: bare, and carrying the
\* fields events of known types carry
UnknownEvents ==
    { Ev("future"),
      [Ev("future") EXCEPT !.index = 0, !.d_text = <<"H">>],
      [Ev("future") EXCEPT !.u_output = 3] }

\* the events of blocks: a tool call, its input, and a thinking block
BlockEvents ==
    { ContentBlockStart(0, "tool_use"), InputJsonDelta(0, <<"x">>),
      ContentBlockStart(1, "thinking"), ThinkingDelta(1, <<"t">>),
      ContentBlockStop(1) }

FeedPing == FeedUsage(Ping)

FeedUnknown == \E e \in UnknownEvents : FeedUsage(e)

FeedBlock == \E e \in BlockEvents : FeedUsage(e)

NextIgnore ==
    \/ FeedMessageStart
    \/ FeedText
    \/ FeedBlock
    \/ FeedPing
    \/ FeedUnknown
    \/ FeedMessageStop

SpecIgnore == InitUsage /\ [][NextIgnore]_vars

-----------------------------------------------------------------------------
(* The handler given a token, for clients that send max_tokens             *)

\* max_tokens of the client: absent, below the thinking budget, the budget,
\* and above the largest maxTokens of a variant
ClientMaxTokens == { 0, 1024, budget_tokens, 100000 }

\* messagesFn from its first line to the call of fetch or to an early answer,
\* for the request req when getAccessToken gives a token
HandlerToFetch(req) ==
    /\ pc = "idle"
    /\ nRequests = 0
    /\ \E redisOk \in BOOLEAN :
          LET h == CHOOSE answer \in
                      { HandleRequest(r, API_KEY, <<"tok">>, memoryCache, redisStore,
                                      redisConfigured, redisOk) : r \in {req} } : TRUE
          IN /\ redisConfigured \/ redisOk
             /\ request' = req
             /\ originalModel' = req.model
             /\ transformToOpenAIFormat' = h.outcome.transform
             /\ state' = createConverterState(req.model)
             /\ out' = <<>>
             /\ outcome' = h.outcome
             /\ memoryCache' = h.memory
             /\ pc' = IF h.outcome.kind = "dispatched" THEN "dispatched" ELSE "returned"
    /\ nRequests' = nRequests + 1
    /\ UNCHANGED <<wire, consumed, upstream, sentEvents, redisStore, redisConfigured,
                   now, lastResponse, API_KEY, keyVars, authVars, resolverVars,
                   cacheUses>>

messagesFnToFetch ==
    \E req \in Requests, max_tokens \in ClientMaxTokens :
       HandlerToFetch([req EXCEPT !.max_tokens = max_tokens])

NextBudget ==
    \/ messagesFnToFetch
    \/ Fetch

SpecBudget == InitPipeline /\ [][NextBudget]_vars

-----------------------------------------------------------------------------
(* The handler in front of a cache that holds the thinking block of an     *)
(* earlier response, for histories of every shape                          *)

\* the thinking block of the earlier response, whose text was "H"
EarlierThinking == ThinkingBlock(<<"t">>, <<"s">>)

\* histories whose assistant content is not a well-formed block sequence
MalformedContents ==
    { ArrayContent(<<NullBlock>>),
      ArrayContent(<<TextBlock(<<"H">>), NullBlock>>),
      ArrayContent(<<EarlierThinking, NullBlock>>) }

InjectMessageLists ==
    MessageLists
    \cup { [has |-> TRUE, list |-> <<UserMessage, AssistantMessage(c), UserMessage>>] :
             c \in MalformedContents }
    \cup { [has |-> TRUE,
            list |-> <<SystemMessage, UserMessage,
                       AssistantMessage(StringContent(<<"H">>)), UserMessage,
                       AssistantMessage(ArrayContent(<<TextBlock(<<"H">>)>>)),
                       UserMessage>>] }

InjectRequests ==
    { Request(model, FALSE, <<"secret">>, FALSE, path, system, messages, temperature, 0) :
        model \in RequestModels \ {OtherModel}, path \in Paths, system \in Systems,
        messages \in InjectMessageLists, temperature \in Temperatures }

messagesFnInjecting == \E req \in InjectRequests : HandlerToFetch(req)

\* the tiers after cacheThinkingBlock ran for the earlier response; the
\* process may have been replaced since, which empties the local tier
InitInject ==
    /\ StreamInit(ThinkingModel)
    /\ transformToOpenAIFormat = TRUE
    /\ pc = "idle"
    /\ redisConfigured \in BOOLEAN
    /\ \E cached \in BOOLEAN, replaced \in BOOLEAN :
          LET w == cacheThinkingBlock(<<>>, <<>>, redisConfigured, TRUE,
                                      <<EarlierThinking, TextBlock(<<"H">>)>>,
                                      EarlierThinking, 1)
          IN /\ memoryCache = IF cached /\ ~replaced THEN w.memory ELSE <<>>
             /\ redisStore = IF cached THEN w.redis ELSE <<>>
    /\ now = 2
    /\ request = NoRequest
    /\ outcome = NoOutcome
    /\ nRequests = 0
    /\ lastResponse = NoResponse
    /\ API_KEY \in { <<>>, <<"secret">> }
    /\ kContent = StringContent(<<>>)
    /\ kKey = generateCacheKey(StringContent(<<>>))
    /\ AuthIdle
    /\ ResolverIdle
    /\ cacheUses = <<>>

NextInject ==
    \/ messagesFnInjecting
    \/ Fetch

SpecInject == InitInject /\ [][NextInject]_vars

-----------------------------------------------------------------------------
(* The OAuth manager: getAccessToken calls that interleave at their awaits *)
(* over one store (oauth-manager.ts, storage.ts)                           *)

\* the credentials a login or an operator may have left in the store
StoredCredentials ==
    { OAuthCredentials("oauth", refresh, <<"a">>, expires) :
        refresh \in {<<>>, <<"r">>}, expires \in {0, 1, 2} }
    \cup { OAuthCredentials("api", <<"r">>, <<"a">>, 2) }

\* the call of caller c ends with result
Return(c, result, error) ==
    calls' = [calls EXCEPT ![c].at = "done", ![c].result = result, ![c].error = error]

\* the manager serves calls, before a logout or after one
AuthRunning == pc \in {"auth", "loggedOut"}

\* the text of the object FileStorage.remove leaves in the file
EmptyObject == <<"{", "}">>

AuthUnchanged == UNCHANGED <<streamVars, pc, memoryCache, redisStore, redisConfigured,
                             pipeVars, keyVars, resolverVars, cacheUses>>

\* getAccessToken, from its call to its return or to the fetch of refreshToken
getAccessToken(c) ==
    /\ AuthRunning
    /\ calls[c].at = "idle"
    /\ LET credentials == get(storage)
       IN IF credentials = NoCredentials \/ credentials.type # "oauth"
          THEN Return(c, NoToken, "")
          ELSE IF TokenIsValid(credentials, now)
          THEN calls' = [calls EXCEPT ![c].at = "done",
                                      ![c].credentials = credentials,
                                      ![c].result = credentials.access]
          ELSE IF credentials.refresh # <<>>
          THEN calls' = [calls EXCEPT ![c].at = "fetch",
                                      ![c].credentials = credentials]
          ELSE calls' = [calls EXCEPT ![c].at = "done",
                                      ![c].credentials = credentials]
    /\ UNCHANGED <<storage, issued, now>>
    /\ AuthUnchanged

\* refreshToken: the token endpoint answers, or the fetch fails; on a 2xx
\* answer newCredentials is built and set(newCredentials) is called
TokenEndpointAnswers(c) ==
    /\ AuthRunning
    /\ calls[c].at = "fetch"
    /\ \E ok \in BOOLEAN, expires_in \in ExpiresIns :
          IF ok
          THEN LET data == TokenResponse(issued + 1, expires_in)
               IN /\ calls' = [calls EXCEPT ![c].at = "set",
                                            ![c].data = data,
                                            ![c].newCredentials = NewCredentials(data, now)]
                  /\ issued' = issued + 1
          ELSE /\ Return(c, NoToken, "refresh")
               /\ UNCHANGED issued
    /\ UNCHANGED <<storage, now>>
    /\ AuthUnchanged

\* RedisStorage.set: redis.set resolves or rejects
RedisSet(c) ==
    /\ AuthRunning
    /\ calls[c].at = "set"
    /\ storage.kind = "redis"
    /\ \E ok \in BOOLEAN :
          IF ok
          THEN /\ storage' = Store("redis", TRUE, JsonStringify(calls[c].newCredentials))
               /\ Return(c, calls[c].data.access_token, "")
          ELSE /\ Return(c, NoToken, "storage")
               /\ UNCHANGED storage
    /\ UNCHANGED <<issued, now>>
    /\ AuthUnchanged

\* FileStorage.set up to its call of writeFile: the file is read and parsed
FileSetRead(c) ==
    /\ AuthRunning
    /\ calls[c].at = "set"
    /\ storage.kind = "file"
    /\ IF storage.exists /\ ~JsonParses(storage.data) /\ storage.data # EmptyObject
       THEN Return(c, NoToken, "parse")
       ELSE calls' = [calls EXCEPT ![c].at = "writeFile"]
    /\ UNCHANGED <<storage, issued, now>>
    /\ AuthUnchanged

\* writeFile opens the file for writing, which creates it or truncates it
FileOpen(c) ==
    /\ AuthRunning
    /\ calls[c].at = "writeFile"
    /\ \E ok \in BOOLEAN :
          IF ok
          THEN /\ storage' = Store("file", TRUE, <<>>)
               /\ calls' = [calls EXCEPT ![c].at = "opened"]
          ELSE /\ Return(c, NoToken, "storage")
               /\ UNCHANGED storage
    /\ UNCHANGED <<issued, now>>
    /\ AuthUnchanged

\* writeFile writes the text through its descriptor and closes it, or the
\* write fails (the disk is full) and it closes the file as it is; set and
\* refreshToken return
FileWrite(c) ==
    /\ AuthRunning
    /\ calls[c].at = "opened"
    /\ \E ok \in BOOLEAN :
          IF ok
          THEN /\ storage' = Store("file", TRUE,
                                   WriteAtStart(storage.data,
                                                JsonStringify(calls[c].newCredentials)))
               /\ Return(c, calls[c].data.access_token, "")
          ELSE /\ Return(c, NoToken, "storage")
               /\ UNCHANGED storage
    /\ UNCHANGED <<issued, now>>
    /\ AuthUnchanged

\* time passes
ClockTick ==
    /\ AuthRunning
    /\ now < MaxClock
    /\ now' = now + 1
    /\ UNCHANGED <<storage, calls, issued>>
    /\ AuthUnchanged

InitAuth ==
    /\ StreamInit(ThinkingModel)
    /\ transformToOpenAIFormat = TRUE
    /\ pc = "auth"
    /\ memoryCache = <<>>
    /\ redisStore = <<>>
    /\ redisConfigured = FALSE
    /\ now = 1
    /\ request = NoRequest
    /\ outcome = NoOutcome
    /\ nRequests = 0
    /\ lastResponse = NoResponse
    /\ API_KEY = <<>>
    /\ kContent = StringContent(<<>>)
    /\ kKey = generateCacheKey(StringContent(<<>>))
    /\ storage \in { Store(kind, FALSE, <<>>) : kind \in {"redis", "file"} }
                   \cup { Store(kind, TRUE, JsonStringify(credentials)) :
                            kind \in {"redis", "file"}, credentials \in StoredCredentials }
    /\ calls = [c \in Callers |-> NotCalled]
    /\ issued = 0
    /\ ResolverIdle
    /\ cacheUses = <<>>

NextAuth ==
    \/ \E c \in Callers : getAccessToken(c)
    \/ \E c \in Callers : TokenEndpointAnswers(c)
    \/ \E c \in Callers : RedisSet(c)
    \/ \E c \in Callers : FileSetRead(c)
    \/ \E c \in Callers : FileOpen(c)
    \/ \E c \in Callers : FileWrite(c)
    \/ ClockTick

SpecAuth == InitAuth /\ [][NextAuth]_vars

\* logout: remove() deletes the key from Redis, or rewrites the file without
\* the key (a file that is missing or does not parse is left as it is)
Logout ==
    /\ pc = "auth"
    /\ pc' = "loggedOut"
    /\ storage' = IF storage.kind = "redis" THEN Store("redis", FALSE, <<>>)
                  ELSE IF storage.exists /\ JsonParses(storage.data)
                  THEN Store("file", TRUE, EmptyObject)
                  ELSE storage
    /\ UNCHANGED <<streamVars, memoryCache, redisStore, redisConfigured, pipeVars,
                   keyVars, calls, issued, now, resolverVars, cacheUses>>

NextLogout ==
    \/ NextAuth
    \/ Logout

SpecLogout == InitAuth /\ [][NextLogout]_vars

-----------------------------------------------------------------------------
(* Properties of the stream translator                                     *)

\* how many elements of seq satisfy P
CountIf(seq, P(_)) == Cardinality({i \in 1..Len(seq) : P(seq[i])})

IsDone(r) == r.type = "done"
IsNewline(k) == k.t = "nl"
IsMessageStop(e) == e.type = "message_stop"
HasStopReason(e) == e.type = "message_delta" /\ e.d_stop_reason # <<>>
HasFinishReason(r) == r.type = "chunk" /\ r.finish_reason # <<>>

\* the events whose whole line, newline included, the reader has read
EventsRead == SubSeq(sentEvents, 1, CountIf(consumed, IsNewline))

RECURSIVE ArgumentsEmitted(_, _)
\* the concatenation of the arguments strings of the chunks of results that
\* carry a tool call of block index idx
ArgumentsEmitted(results, idx) ==
    IF results = <<>> THEN <<>>
    ELSE (IF Head(results).type = "chunk" /\ Head(results).tool_index = idx
          THEN Head(results).arguments ELSE <<>>)
         \o ArgumentsEmitted(Tail(results), idx)

\* C1: chunk-boundary independence.  However the upstream's bytes were split
\* into the chunks read so far, the results written and the converter state
\* are those of a single processChunk call on everything read, made on a
\* fresh ConverterState.
C1_ChunkBoundaryIndependence ==
    (pc \in {"streaming", "finished"} /\ upstream.phase # "start"
     /\ transformToOpenAIFormat)
    => LET whole == processChunk(createConverterState(originalModel), consumed)
       IN out = whole.results /\ state = whole.state

\* a read ended in the middle of a data line after two events were translated
C1_Witness ==
    /\ pc = "streaming"
    /\ state.lineBuffer # <<>>
    /\ Len(out) >= 2
    /\ CountIf(consumed, IsNewline) >= 3

\* C2: [DONE] is written exactly when a message_stop event is processed; a
\* stream that ended after message_stop has exactly one [DONE], as its last
\* result, with any usage chunk before it; a stream cut off before
\* message_stop has no [DONE], and every finish_reason written answers a
\* stop_reason the upstream sent.
C2_DoneExactlyAtMessageStop ==
    (pc \in {"streaming", "finished"} /\ transformToOpenAIFormat
     /\ upstream.phase # "start")
    => /\ CountIf(out, IsDone) = CountIf(EventsRead, IsMessageStop)
       /\ CountIf(out, HasFinishReason) = CountIf(EventsRead, HasStopReason)
       /\ \A i \in 1..Len(out) :
             HasFinishReason(out[i]) =>
                \E j \in 1..Len(EventsRead) :
                   /\ HasStopReason(EventsRead[j])
                   /\ out[i].finish_reason = MapStopReason(EventsRead[j].d_stop_reason)
       /\ (pc = "finished" /\ upstream.phase = "closed")
          => /\ CountIf(out, IsDone) = 1
             /\ IsDone(out[Len(out)])
             /\ \A i \in 1..Len(out) : out[i].has_usage => i < Len(out)
       /\ (pc = "finished" /\ upstream.phase = "truncated")
          => CountIf(out, IsDone) = 0

\* a stream that ended after message_stop and carried a usage chunk
C2_Witness ==
    /\ pc = "finished"
    /\ upstream.phase = "closed"
    /\ \E i \in 1..Len(out) : out[i].has_usage
    /\ IsDone(out[Len(out)])

\* C3: for every tracked tool_use block, the concatenation of the arguments
\* strings written so far for its index is the arguments string accumulated
\* in its ToolCallTracker.
C3_ArgumentsConcatenation ==
    (pc \in {"streaming", "finished"} /\ transformToOpenAIFormat
     /\ upstream.phase # "start")
    => \A idx \in DOMAIN state.toolCallsTracker :
          ArgumentsEmitted(out, idx) = state.toolCallsTracker[idx].arguments

\* a cumulative fragment was received: only its suffix "y" was written
C3_Witness ==
    /\ pc = "streaming"
    /\ \E idx \in DOMAIN state.toolCallsTracker :
          /\ state.toolCallsTracker[idx].arguments = <<"x", "y">>
          /\ \E i \in 1..Len(out) :
                out[i].type = "chunk" /\ out[i].tool_index = idx
                /\ out[i].arguments = <<"y">>

\* C8: every chunk written for the request, and the chat-completion object of
\* a response that is not streamed, carries the client's original model
\* string in its model field.
C8_ModelEcho ==
    transformToOpenAIFormat
    => \A i \in 1..Len(out) :
          out[i].type \in {"chunk", "completion"} => out[i].model = originalModel

\* chunks of every kind were written while the upstream reported another model
C8_Witness ==
    /\ pc = "finished"
    /\ state.metricsData.messageId # <<>>
    /\ resolveModelVariant(originalModel).model # originalModel
    /\ \E i \in 1..Len(out) : out[i].type = "chunk" /\ out[i].delta = "tool_args"
    /\ \E i \in 1..Len(out) : out[i].type = "chunk" /\ out[i].has_usage

\* C10 (as claimed): when the stream did not close cleanly (the read failed,
\* or the upstream ended its body before message_stop) no cache entry is
\* written for the response.
C10_NoPartialCache ==
    (pc = "finished" /\ upstream.phase \in {"truncated", "failed"})
    => memoryCache = <<>>

-----------------------------------------------------------------------------
(* Properties of the cache key                                             *)

RECURSIVE SortedBy(_, _)
\* the pairs of input in the order ks of their keys
SortedBy(input, ks) ==
    IF ks = <<>> THEN <<>>
    ELSE <<(<<Head(ks), ValueOf(input, Head(ks))>>)>> \o SortedBy(input, Tail(ks))

\* the content with its thinking blocks stripped and the keys of every tool
\* input in sorted order
NonThinkingContent(content) ==
    LET bs == FilterNonThinking(content.blocks)
    IN ArrayContent([i \in 1..Len(bs) |->
          [bs[i] EXCEPT !.input = SortedBy(@, SortKeys(KeysOf(@)))]])

\* C7: the cache key is a function of the non-thinking content only: adding
\* or removing thinking and redacted_thinking blocks, and reordering the keys
\* of a tool_use input, leave the key of a content unchanged.
C7_KeyOfNonThinkingContent ==
    pc = "keying" => kKey = generateCacheKey(NonThinkingContent(kContent))

\* a content that got two thinking blocks, one of them first, around a tool
\* call whose input keys were put in descending order
C7_Witness ==
    /\ pc = "keying"
    /\ Len(kContent.blocks) >= 3
    /\ kContent.blocks[1].type = "thinking"
    /\ \E i \in 1..Len(kContent.blocks) : kContent.blocks[i].type = "redacted_thinking"
    /\ \E i \in 1..Len(kContent.blocks) :
          /\ kContent.blocks[i].type = "tool_use"
          /\ kContent.blocks[i].input = << <<(<<"b">>), (<<"2">>)>>, <<(<<"a">>), (<<"1">>)>> >>

-----------------------------------------------------------------------------
(* Properties of the injection and of the downgrade                        *)

\* an assistant message without a thinking block
LacksThinking(msg) ==
    msg.role = "assistant"
    /\ (msg.content.isString \/ ~hasThinking(msg.content.blocks))

\* the assistant messages of the dispatched body left without a thinking block
MissingAfterInjection ==
    Cardinality({i \in 1..Len(outcome.messages) : LacksThinking(outcome.messages[i])})

\* the messages the injection was given: the client's, without the
\* system-role messages when the body was rewritten
MessagesGiven ==
    IF Len(outcome.messages) = Len(request.messages) THEN request.messages
    ELSE FilterSeq(request.messages, LAMBDA msg : msg.role # "system")

\* C5 (as claimed): when the variant enables thinking and an assistant
\* message is left without a thinking block after injection, the dispatched
\* request has no thinking parameter, the client's temperature and no
\* interleaved-thinking beta; when no assistant message is left without one,
\* the thinking parameter is kept.
C5_ThinkingDowngrade ==
    (pc = "dispatched" /\ outcome.injected
     /\ resolveModelVariant(request.model).thinking.enabled)
    => IF MissingAfterInjection > 0
       THEN /\ ~outcome.thinking.enabled
            /\ outcome.temperature = request.temperature
            /\ \A i \in 1..Len(outcome.beta) : outcome.beta[i] # InterleavedThinkingBeta
       ELSE outcome.thinking.enabled

\* C6 (as claimed): after a stream that closed cleanly with a captured
\* thinking block, a request whose history has an assistant message with the
\* content of that response (its text and its tool_use blocks, thinking
\* stripped) gets the cached block injected into that message.
C6_CacheHitAfterCleanStream ==
    (pc = "dispatched" /\ outcome.injected
     /\ lastResponse.clean /\ lastResponse.captured)
    => \A i \in 1..Len(MessagesGiven) :
          (MessagesGiven[i].role = "assistant"
           /\ MessagesGiven[i].content = ArrayContent(lastResponse.content))
          => /\ outcome.injectedCount >= 1
             /\ outcome.messages[i].content.blocks # <<>>
             /\ outcome.messages[i].content.blocks[1].type = "thinking"

\* C9 (as claimed): injection prepends the cached block to each assistant
\* message without thinking whose key hits and counts it as injected, counts
\* a miss as missing, and returns injected_count, missing_count and
\* can_use_thinking, true exactly when no assistant message is left without
\* a thinking block.
C9_InjectResult ==
    (pc = "dispatched" /\ outcome.injected)
    => /\ outcome.injectedCount =
             Cardinality({i \in 1..Len(MessagesGiven) :
                             LacksThinking(MessagesGiven[i])
                             /\ ~LacksThinking(outcome.messages[i])})
       /\ outcome.missingCount.defined
       /\ outcome.missingCount.number = MissingAfterInjection
       /\ outcome.canUseThinking.defined
       /\ outcome.canUseThinking.truthy = (MissingAfterInjection = 0)

-----------------------------------------------------------------------------
(* Properties of the OAuth manager                                         *)

\* caller c is inside storage.set
InSet(c) == calls[c].at \in {"set", "writeFile", "opened"}

\* C11: getAccessToken returns none when storage.get gives no credential or
\* one whose type is not "oauth"; it returns the stored access token when
\* expires is strictly greater than now; otherwise (expires <= now, equal
\* included) it performs a refresh when a refresh secret is present, and the
\* refresh that completes returns the new access token; with no refresh
\* secret it returns none.
C11_GetAccessToken ==
    [][\A c \in Callers :
         /\ calls[c].at = "idle" /\ calls'[c].at # "idle" =>
               LET stored == get(storage)
                   none == calls'[c].at = "done" /\ calls'[c].result = NoToken
               IN /\ stored = NoCredentials \/ stored.type # "oauth" => none
                  /\ stored.type = "oauth" /\ stored.expires > now =>
                        calls'[c].at = "done" /\ calls'[c].result = stored.access
                  /\ stored.type = "oauth" /\ stored.expires <= now
                        /\ stored.refresh # <<>> => calls'[c].at = "fetch"
                  /\ stored.type = "oauth" /\ stored.expires <= now
                        /\ stored.refresh = <<>> => none
         /\ InSet(c) /\ calls'[c].at = "done" /\ calls'[c].error = "" =>
               calls'[c].result = calls[c].data.access_token
       ]_vars

\* a call that found expires equal to now has refreshed and returned the new
\* access token
C11_Witness ==
    \E c \in Callers :
        /\ calls[c].at = "done"
        /\ calls[c].credentials.expires = now
        /\ calls[c].result # NoToken
        /\ calls[c].result = calls[c].data.access_token

\* caller c is the only one to have refreshed so far
RefreshesAlone(c) == \A d \in Callers \ {c} : calls[d].data = NoTokenResponse

\* C12: after a successful refresh (one that no other refresh overlaps) the
\* stored credential is the new one: type oauth, the refresh and access
\* tokens of the token endpoint's answer, expires = the instant of the
\* refresh + expires_in * 1000; and the token returned to the caller is the
\* access token that was stored.
C12_RefreshStoresNewCredential ==
    [][\A c \in Callers :
         /\ calls[c].at = "fetch" /\ calls'[c].at = "set" =>
               calls'[c].newCredentials =
                   OAuthCredentials("oauth", calls'[c].data.refresh_token,
                                    calls'[c].data.access_token,
                                    now + calls'[c].data.expires_in * 1000)
         /\ InSet(c) /\ calls'[c].at = "done" /\ calls'[c].error = "" /\ RefreshesAlone(c) =>
               /\ storage'.exists
               /\ get(storage') = calls[c].newCredentials
               /\ calls'[c].result = get(storage').access
               /\ calls'[c].result = calls[c].data.access_token
       ]_vars

\* a refresh has stored its credential and returned its access token
C12_Witness ==
    \E c \in Callers :
        /\ calls[c].at = "done"
        /\ calls[c].data # NoTokenResponse
        /\ calls[c].error = ""
        /\ RefreshesAlone(c)
        /\ get(storage) = calls[c].newCredentials
        /\ calls[c].newCredentials.expires > 1000
        /\ calls[c].result = get(storage).access

\* every call has returned, and all of them read the same expired credential
\* and were answered by the token endpoint, the store failing none of them
AllRefreshedTheSame ==
    /\ \A c \in Callers : /\ calls[c].at = "done"
                          /\ calls[c].data # NoTokenResponse
                          /\ calls[c].error # "storage"
    /\ \A c, d \in Callers : calls[c].credentials = calls[d].credentials

\* C13: when several getAccessToken calls interleave and all observe the
\* same expired credential, each refreshes and gets the token of its own
\* refresh, and once all have returned the store holds the complete
\* credential one of them wrote (the last writer's), not a mixture.
C13_ConcurrentRefresh ==
    AllRefreshedTheSame =>
        /\ \A c \in Callers : calls[c].result = calls[c].data.access_token
        /\ \E c \in Callers : /\ storage.exists
                              /\ storage.data = JsonStringify(calls[c].newCredentials)

-----------------------------------------------------------------------------
(* Properties of the pipeline's order and of its gateway                   *)

\* the handler is past the API key check with the request it holds
ApiKeyAccepted == API_KEY = <<>> \/ request.apiKey = API_KEY

\* C14: every request (past the API key check) whose model, as the client
\* sent it, is not Claude-family and whose body is not a BYOK probe is
\* answered 404 with error type invalid_request_error and code
\* model_not_supported_by_proxy, and goes no further; non-Claude names that
\* the resolver rewrites included.
C14_SelectiveGateway ==
    request # NoRequest /\ ApiKeyAccepted
      /\ ~isClaudeModel(request.model) /\ ~request.probe =>
        /\ pc = "returned"
        /\ outcome.kind = "404"
        /\ outcome.status = 404
        /\ outcome.errorType = "invalid_request_error"
        /\ outcome.errorCode = "model_not_supported_by_proxy"

-----------------------------------------------------------------------------
(* Properties of the stream translator: errors, tool arguments, finish     *)
(* reasons and thinking                                                    *)

\* the positions in toks of the data lines whose JSON is cut at the newline
MalformedLines(toks) ==
    {i \in 1..(Len(toks) - 1) :
        toks[i].t = "data" /\ toks[i].half = 1 /\ toks[i + 1].t = "nl"}

\* C16 (as claimed): an error inside the translator while it processes an
\* event (a data line whose JSON does not parse) ends the stream: what is
\* written to the client is what the lines up to the failing one gave, and no
\* chunk is emitted after it.
C16_NoChunkAfterFailure ==
    transformToOpenAIFormat /\ pc \in {"streaming", "finished"}
      /\ MalformedLines(consumed) # {} =>
        LET first == CHOOSE i \in MalformedLines(consumed) :
                        \A j \in MalformedLines(consumed) : i <= j
        IN out = processChunk(createConverterState(originalModel),
                              SubSeq(consumed, 1, first + 1)).results

\* the last event fed
LastFed == sentEvents[Len(sentEvents)]

\* the new results of a step
NewResults == SubSeq(out', Len(out) + 1, Len(out'))

\* the arguments string a step emitted: none is the empty string
NewArguments ==
    IF NewResults = <<>> THEN <<>> ELSE NewResults[1].arguments

\* the arguments strings of the tool chunks of results, in order
RECURSIVE ArgumentsOf(_)
ArgumentsOf(results) ==
    IF results = <<>> THEN <<>>
    ELSE (IF Head(results).type = "chunk" /\ Head(results).tool_index = 0
          THEN <<Head(results).arguments>> ELSE <<>>)
         \o ArgumentsOf(Tail(results))

\* C17: on a partial_json fragment for a tracked block, a fragment that
\* begins with the tracker's accumulated arguments is cumulative (what is
\* emitted is its suffix beyond the accumulated string, and the tracker
\* becomes the fragment); any other is a delta (emitted whole, and appended
\* to the tracker).  The cumulative fragments {"q"  {"q":"fo  {"q":"foo"}
\* after the start give the emitted strings "", {"q"  :"fo  o"}.
C17_ToolArgumentPolicy ==
    /\ [][sentEvents' # sentEvents /\ sentEvents'[Len(sentEvents')].type = "content_block_delta"
            /\ 0 \in DOMAIN state.toolCallsTracker =>
           LET fragment == sentEvents'[Len(sentEvents')].d_partial_json
               accumulated == state.toolCallsTracker[0].arguments
           IN /\ Len(NewResults) <= 1
              /\ IF StartsWith(fragment, accumulated)
                 THEN /\ NewArguments = Substring(fragment, Len(accumulated))
                      /\ state'.toolCallsTracker[0].arguments = fragment
                 ELSE /\ NewArguments = fragment
                      /\ state'.toolCallsTracker[0].arguments = accumulated \o fragment
         ]_vars
    /\ [](sentEvents = <<ContentBlockStart(0, "tool_use"),
                         InputJsonDelta(0, <<"{", "\"", "q", "\"">>),
                         InputJsonDelta(0, <<"{", "\"", "q", "\"", ":", "\"", "f", "o">>),
                         InputJsonDelta(0, <<"{", "\"", "q", "\"", ":", "\"", "f", "o", "o",
                                             "\"", "}">>)>>
          => ArgumentsOf(out) = << <<>>, <<"{", "\"", "q", "\"">>,
                                   <<":", "\"", "f", "o">>, <<"o", "\"", "}">> >>)

\* the three cumulative fragments were fed after the start, and a delta was
\* appended in another run of fragments
C17_Witness ==
    /\ pc = "feeding"
    /\ Len(sentEvents) = 4
    /\ ArgumentsOf(out) = << <<>>, <<"{", "\"", "q", "\"">>,
                             <<":", "\"", "f", "o">>, <<"o", "\"", "}">> >>

\* the finish_reason the claim gives for a stop_reason
FinishReasonOf(stop_reason) ==
    CASE stop_reason = <<"end_turn">> -> <<"stop">>
      [] stop_reason = <<"tool_use">> -> <<"tool_calls">>
      [] OTHER -> stop_reason

\* C18: the finish reason is mapped in the same way for a streamed response
\* and for one that is not: end_turn gives "stop", tool_use gives
\* "tool_calls", any other stop_reason is passed through; and a chunk of a
\* stream carries a finish_reason only in answer to a message_delta that
\* carries a stop_reason.
C18_FinishReason ==
    [][sentEvents' # sentEvents =>
         LET e == sentEvents'[Len(sentEvents')]
         IN IF e.type = "message"
            THEN /\ Len(NewResults) = 1
                 /\ NewResults[1].type = "completion"
                 /\ NewResults[1].finish_reason = FinishReasonOf(e.m_stop_reason)
            ELSE IF e.type = "message_delta" /\ e.d_stop_reason # <<>>
            THEN /\ Len(NewResults) = 1
                 /\ NewResults[1].type = "chunk"
                 /\ NewResults[1].finish_reason = FinishReasonOf(e.d_stop_reason)
            ELSE \A i \in 1..Len(NewResults) :
                    NewResults[i].type = "chunk" /\ NewResults[i].finish_reason = <<>>
      ]_vars

\* a stream ended on tool_use and its chunk says tool_calls
C18_Witness ==
    /\ pc = "feeding"
    /\ sentEvents # <<>>
    /\ LastFed.type = "message_delta"
    /\ LastFed.d_stop_reason = <<"tool_use">>
    /\ out[Len(out)].finish_reason = <<"tool_calls">>

\* the thinking text and the signature the upstream sent: what the
\* content_block_start carried and the deltas, in order
ThinkingSent ==
    Concat([i \in 1..Len(sentEvents) |->
                sentEvents[i].cb_thinking \o sentEvents[i].d_thinking])
SignatureSent ==
    Concat([i \in 1..Len(sentEvents) |->
                sentEvents[i].cb_signature \o sentEvents[i].d_signature])

\* C19: thinking blocks are stored and replayed verbatim: the block kept in
\* either tier of the cache, and the block injected into the historical
\* assistant message, have exactly the thinking text (the concatenation of
\* the thinking deltas) and the signature the upstream sent for the response.
C19_ThinkingVerbatim ==
    pc \in {"cached", "cold", "replayed", "replayed_cold"} =>
        /\ \A i \in 1..Len(memoryCache) :
              memoryCache[i].value.thinkingBlock = ThinkingBlock(ThinkingSent, SignatureSent)
        /\ \A i \in 1..Len(redisStore) :
              redisStore[i].value.thinkingBlock = ThinkingBlock(ThinkingSent, SignatureSent)
        /\ \A i \in 1..Len(outcome.messages) :
              LET msg == outcome.messages[i]
              IN msg.role = "assistant" /\ ~msg.content.isString
                   /\ hasThinking(msg.content.blocks) =>
                    /\ msg.content.blocks[1] = ThinkingBlock(ThinkingSent, SignatureSent)
                    /\ Tail(msg.content.blocks) = <<TextBlock(<<"H">>)>>

\* a block of several thinking deltas and several signature deltas was read
\* back from the persistent tier by a new process and injected
C19_Witness ==
    /\ pc = "replayed_cold"
    /\ outcome.injectedCount = 1
    /\ Len(ThinkingSent) > 2
    /\ Len(SignatureSent) > 2
    /\ outcome.messages[2].content.blocks[1].thinking = ThinkingSent
    /\ outcome.messages[2].content.blocks[1].signature = SignatureSent

\* the events processChunk answers with no result and that carry, open or
\* close a thinking block: thinking and redacted_thinking block starts,
\* thinking deltas, signature deltas and content_block_stop
IsThinkingEvent(e) ==
    \/ e.type = "content_block_start" /\ e.cb_type \in {"thinking", "redacted_thinking"}
    \/ e.type = "content_block_delta" /\ e.d_thinking # <<>>
    \/ e.type = "content_block_delta" /\ e.d_signature # <<>>
    \/ e.type = "content_block_stop"

RECURSIVE WithoutThinking(_)
\* events with the events of IsThinkingEvent taken out
WithoutThinking(events) ==
    IF events = <<>> THEN <<>>
    ELSE (IF IsThinkingEvent(Head(events)) THEN <<>> ELSE <<Head(events)>>)
         \o WithoutThinking(Tail(events))

\* C20: thinking content never reaches the client.  Thinking and
\* redacted_thinking block starts, thinking deltas, signature deltas and
\* content_block_stop produce no result: what has been written to the client
\* is what the translator writes for the events read with those events taken
\* out, so two streams that differ only in their thinking blocks are written
\* to the client as the same results.
C20_ThinkingNeverReachesClient ==
    (pc \in {"streaming", "finished"} /\ upstream.phase # "start"
     /\ transformToOpenAIFormat)
    => out = processChunk(createConverterState(originalModel),
                          SerializeAll(WithoutThinking(EventsRead))).results

\* a stream that ended after a thinking block with a thinking delta and a
\* text block whose delta was written to the client
C20_Witness ==
    /\ pc = "finished"
    /\ upstream.phase = "closed"
    /\ \E i \in 1..Len(EventsRead) :
          EventsRead[i].type = "content_block_delta" /\ EventsRead[i].d_thinking # <<>>
    /\ \E i \in 1..Len(EventsRead) :
          EventsRead[i].type = "content_block_start" /\ EventsRead[i].cb_type = "thinking"
    /\ \E i \in 1..Len(out) : out[i].type = "chunk" /\ out[i].content # <<>>

-----------------------------------------------------------------------------
(* Properties of model resolution                                          *)

\* C21: model resolution is case-insensitive.  Resolving a model string
\* gives the upstream model, the max_tokens and the thinking configuration
\* that resolving its lowercase spelling gives.
C21_CaseInsensitive ==
    pc = "resolved"
    => LET lower == resolveModelVariant(LowerCase(clientModel))
       IN /\ resolved.model = lower.model
          /\ resolved.maxTokens = lower.maxTokens
          /\ resolved.thinking = lower.thinking

\* C22: the resolver answers every model string and applies its rules in
\* order.  A name that is, case and surrounding blanks apart, a key of the
\* variant table has the configuration of that key; otherwise a name with
\* "thinking" in it has the opus, the haiku or by default the sonnet base
\* model, max_tokens 64000 and thinking enabled with the default budget;
\* otherwise the model passes through with max_tokens 8192 and thinking off.
\* In every case originalModel is the client's string as it was given.
C22_ResolverRules ==
    pc = "resolved"
    => LET name == TrimWords(LowerCase(clientModel))
           inTable == \E i \in 1..Len(VariantKeys) : VariantKeys[i] = name
       IN /\ resolved.originalModel = clientModel
          /\ \A i \in 1..Len(VariantKeys) :
                VariantKeys[i] = name
                => /\ resolved.model = VariantConfigs[i].model
                   /\ resolved.maxTokens = VariantConfigs[i].maxTokens
                   /\ resolved.thinking = VariantConfigs[i].thinking
          /\ (~inTable /\ "thinking" \in Range(name))
             => /\ resolved.model = (IF "opus" \in Range(name) THEN OpusModel
                                     ELSE IF "haiku" \in Range(name) THEN HaikuModel
                                     ELSE SonnetModel)
                /\ resolved.maxTokens = 64000
                /\ resolved.thinking = [enabled |-> TRUE, budget_tokens |-> 32000]
          /\ (~inTable /\ "thinking" \notin Range(name))
             => /\ resolved.model = clientModel
                /\ resolved.maxTokens = 8192
                /\ ~resolved.thinking.enabled

\* a key of the variant table without thinking, spelled in another case with
\* a blank beside it, was resolved to the configuration of the key
C22_Witness ==
    /\ pc = "resolved"
    /\ clientModel # LowerCase(clientModel)
    /\ Blanks(clientModel) = 1
    /\ resolved.model = OpusModel
    /\ resolved.maxTokens = HighMaxTokens

-----------------------------------------------------------------------------
(* Properties of the thinking cache                                        *)

\* C23: the local tier is bounded.  After any writes and lookups, back-fills
\* from the persistent tier included, the local map holds at most
\* MAX_MEMORY_CACHE_SIZE entries.
C23_LocalTierBounded ==
    pc = "cache" => Len(memoryCache) <= MAX_MEMORY_CACHE_SIZE

\* the place in cacheUses of the last use of the entry of key: its last
\* write or its last lookup that found it (0 when it was never used)
LastUse(key) ==
    LET used == { i \in 1..Len(cacheUses) :
                    /\ cacheUses[i].key = key
                    /\ cacheUses[i].op = "write" \/ cacheUses[i].hit }
    IN IF used = {} THEN 0 ELSE CHOOSE i \in used : \A j \in used : j <= i

\* C29: the local tier evicts in least-recently-used order.  When a step
\* evicts entries, no evicted entry was used (written, or found by a lookup)
\* more recently than an entry the step keeps.
C29_EvictsLeastRecentlyUsed ==
    [][pc = "cache"
       => \A evicted \in MapKeys(memoryCache) \ MapKeys(memoryCache') :
             \A kept \in MapKeys(memoryCache) \cap MapKeys(memoryCache') :
                LastUse(evicted) < LastUse(kept)]_vars

\* C24: a failing or absent persistent tier never fails a cache operation.
\* Every write returns and leaves its block in the local tier, and when the
\* persistent write fails or no persistent tier is configured it leaves the
\* persistent tier as it was; a lookup whose persistent read fails, or made
\* with no persistent tier, returns, finds the block exactly when the local
\* tier holds it, and leaves the local tier as it was.
C24_PersistentTierMayFail ==
    [][(pc = "cache" /\ cacheUses' # cacheUses)
       => LET use == cacheUses'[Len(cacheUses')]
              persistent == redisConfigured /\ use.redisOk
          IN /\ pc' = "cache"
             /\ use.op = "write"
                => /\ MapHas(memoryCache', use.key)
                   /\ MapGet(memoryCache', use.key).thinkingBlock = CachedBlock
                   /\ ~persistent => redisStore' = redisStore
             /\ (use.op = "lookup" /\ ~persistent)
                => /\ use.hit = MapHas(memoryCache, use.key)
                   /\ memoryCache' = memoryCache]_vars

\* a block whose persistent write failed was found by a later lookup whose
\* persistent read failed too
C24_Witness ==
    /\ pc = "cache"
    /\ redisConfigured
    /\ \E i, j \in 1..Len(cacheUses) :
          /\ i < j
          /\ cacheUses[i].op = "write" /\ ~cacheUses[i].redisOk
          /\ cacheUses[j].op = "lookup" /\ ~cacheUses[j].redisOk /\ cacheUses[j].hit
          /\ cacheUses[j].key = cacheUses[i].key
          /\ ~MapHas(redisStore, cacheUses[i].key)

-----------------------------------------------------------------------------
(* Properties of the handler's format detection and body rewrite           *)

IsSystemMessage(msg) == msg.role = "system"
IsNotSystemMessage(msg) == msg.role # "system"

\* the first block of the system prompt of req declares the first-party persona
DeclaresPersona(req) ==
    req.has_system /\ req.system # <<>> /\ IncludesPersona(req.system[1])

\* C25: format detection.  The response is translated to OpenAI format
\* exactly when the request path is /v1/chat/completions or the messages of
\* the inbound body hold a system-role message; otherwise the upstream's
\* payload is passed through.
C25_FormatDetection ==
    pc = "dispatched"
    => (outcome.transform
        <=> \/ request.path = "/v1/chat/completions"
            \/ \E i \in 1..Len(request.messages) : IsSystemMessage(request.messages[i]))

\* the dispatched body is the rewritten body of request: no system-role
\* message in messages, the other messages in their order; system is the
\* persona line, then the client's system content, then the texts of the
\* lifted system messages in their order; max_tokens is the variant's
IsRewritten ==
    LET lifted == FilterSeq(request.messages, IsSystemMessage)
    IN /\ \A i \in 1..Len(outcome.messages) : IsNotSystemMessage(outcome.messages[i])
       /\ outcome.messages = FilterSeq(request.messages, IsNotSystemMessage)
       /\ outcome.has_system
       /\ outcome.system = <<PersonaLine>> \o request.system
                            \o [i \in 1..Len(lifted) |-> lifted[i].content.str]
       /\ outcome.max_tokens = resolveModelVariant(request.model).maxTokens

\* the dispatched body has the messages and the system content of request
IsNotRewritten ==
    /\ outcome.messages = request.messages
    /\ outcome.system = request.system

C25_FormatDetectionByPersona ==
    pc = "dispatched"
    => /\ outcome.transform
          <=> \/ request.path = "/v1/chat/completions"
              \/ ~DeclaresPersona(request) /\ request.has_messages
       /\ transformToOpenAIFormat = outcome.transform

\* a /v1/messages request with no system-role message was dispatched to be
\* translated, and another, declaring the persona, to be passed through
C25_Witness ==
    /\ pc = "dispatched"
    /\ request.path = "/v1/messages"
    /\ request.messages # <<>>
    /\ \A i \in 1..Len(request.messages) : IsNotSystemMessage(request.messages[i])
    /\ ~DeclaresPersona(request)
    /\ outcome.transform

-----------------------------------------------------------------------------
(* Properties of the handler's answers to upstream errors                  *)

\* C26: on an upstream response that is not 2xx, and when fetch throws, no
\* stream is opened and nothing is written to the cache.  An upstream 401 is
\* answered 401 with the "Authentication failed" message and the upstream's
\* text as details; any other status is answered with that status and the
\* upstream's text as the body; an exception is answered 500.
C26_UpstreamErrors ==
    [][(pc = "fetching" /\ pc' = "returned"
        /\ outcome'.kind \in {"upstream_401", "upstream_error", "proxy_error"})
       => /\ out' = out /\ state' = state /\ wire' = wire /\ consumed' = consumed
          /\ memoryCache' = memoryCache /\ redisStore' = redisStore
          /\ lastResponse' = lastResponse
          /\ outcome'.kind = "proxy_error" => outcome'.status = 500
          /\ (outcome'.kind # "proxy_error" /\ outcome'.upstreamStatus = 401)
             => /\ outcome'.status = 401
                /\ outcome'.body = <<"Authentication failed",
                                     "OAuth token may be expired. Please re-authenticate using /auth/login/start",
                                     outcome'.upstreamText>>
          /\ (outcome'.kind # "proxy_error" /\ outcome'.upstreamStatus # 401)
             => /\ outcome'.status = outcome'.upstreamStatus
                /\ outcome'.status \notin 200..299
                /\ outcome'.body = <<outcome'.upstreamText>>]_vars

\* an upstream 401 with a text was answered
C26_Witness ==
    /\ pc = "returned"
    /\ outcome.upstreamStatus = 401
    /\ outcome.upstreamText # <<>>
    /\ outcome.status = 401
    /\ Len(outcome.body) = 3

-----------------------------------------------------------------------------
(* Properties of the converter of full responses and of the usage chunk    *)

IsTextBlock(b) == b.type = "text"
IsToolUseBlock(b) == b.type = "tool_use"

RECURSIVE SumOfNumbers(_)
SumOfNumbers(numbers) ==
    IF numbers = <<>> THEN 0 ELSE Head(numbers) + SumOfNumbers(Tail(numbers))

\* the sum of f(e) over the events of a sequence
SumOver(events, f(_)) == SumOfNumbers([i \in 1..Len(events) |-> f(events[i])])

InputTokensOf(e) == e.u_input + e.mu_input
OutputTokensOf(e) == e.u_output + e.mu_output
CacheReadTokensOf(e) == e.u_cache_read + e.mu_cache_read

IsUsageChunk(r) == r.type = "chunk" /\ r.has_usage

\* C28: when message_stop is processed, a usage chunk is written exactly
\* when the input and output tokens summed over the events of the stream
\* are not both zero; it is written just before [DONE], has an empty delta
\* and no finish_reason, prompt_tokens and completion_tokens are the summed
\* input and output tokens, total_tokens is their sum and cached_tokens is
\* the summed cache_read_input_tokens.  No other event writes a usage chunk.
C28_UsageChunk ==
    [][sentEvents' # sentEvents =>
         LET e == sentEvents'[Len(sentEvents')]
             input == SumOver(sentEvents', InputTokensOf)
             output == SumOver(sentEvents', OutputTokensOf)
             cached == SumOver(sentEvents', CacheReadTokensOf)
         IN IF e.type = "message_stop"
            THEN /\ CountIf(NewResults, IsUsageChunk)
                      = (IF input + output # 0 THEN 1 ELSE 0)
                 /\ IsDone(NewResults[Len(NewResults)])
                 /\ input + output # 0 =>
                       LET u == NewResults[Len(NewResults) - 1]
                       IN /\ IsUsageChunk(u)
                          /\ u.delta = "empty"
                          /\ u.finish_reason = <<>>
                          /\ u.usage.prompt_tokens = input
                          /\ u.usage.completion_tokens = output
                          /\ u.usage.total_tokens = input + output
                          /\ u.usage.cached_tokens = cached
            ELSE CountIf(NewResults, IsUsageChunk) = 0
      ]_vars

\* a message_start and a message_delta both carried usage, and the usage
\* chunk written at message_stop has the sums
C28_Witness ==
    /\ Len(sentEvents) = 3
    /\ sentEvents[1].type = "message_start" /\ sentEvents[1].mu_input = 5
    /\ sentEvents[2].type = "message_delta" /\ sentEvents[2].u_output = 3
    /\ sentEvents[3].type = "message_stop"
    /\ Len(out) >= 2
    /\ IsUsageChunk(out[Len(out) - 1])
    /\ out[Len(out) - 1].usage.total_tokens = 9
    /\ out[Len(out) - 1].usage.cached_tokens = 2

-----------------------------------------------------------------------------
(* Properties of the request given to the upstream                         *)

\* the header list names the beta
InSeq(x, seq) == \E i \in 1..Len(seq) : seq[i] = x

\* C31: in every request given to fetch the thinking settings agree: the
\* body has the thinking parameter (enabled, with its budget) exactly when
\* the anthropic-beta header lists the interleaved-thinking beta; when it has
\* the thinking parameter its temperature is 1; and the oauth, the
\* fine-grained-tool-streaming and the prompt-caching betas are always listed.
C31_ThinkingSettingsConsistent ==
    outcome.kind = "dispatched"
    => /\ outcome.thinking.enabled = InSeq(InterleavedThinkingBeta, outcome.beta)
       /\ outcome.thinking.enabled
          => /\ outcome.thinking = THINKING_CONFIG
             /\ outcome.temperature = "1"
       /\ ~outcome.thinking.enabled => outcome.thinking = NoThinkingConfig
       /\ InSeq("oauth-2025-04-20", outcome.beta)
       /\ InSeq("fine-grained-tool-streaming-2025-05-14", outcome.beta)
       /\ InSeq("prompt-caching-2024-07-31", outcome.beta)

\* a request that asked for another temperature was dispatched with thinking
C31_Witness ==
    /\ outcome.kind = "dispatched"
    /\ outcome.thinking.enabled
    /\ request.temperature = "0.2"
    /\ outcome.temperature = "1"

\* a request for a thinking variant was dispatched without thinking
C31_WitnessDowngrade ==
    /\ outcome.kind = "dispatched"
    /\ resolveModelVariant(request.model).thinking.enabled
    /\ ~outcome.thinking.enabled

\* C39: a request given to fetch with the thinking parameter has max_tokens
\* strictly greater than the budget_tokens of the parameter, whatever
\* max_tokens the client sent and whether or not the body was rewritten.
C39_MaxTokensAboveBudget ==
    (outcome.kind = "dispatched" /\ outcome.thinking.enabled)
    => outcome.max_tokens > outcome.thinking.budget_tokens

-----------------------------------------------------------------------------
(* Properties of the injection step of the handler                         *)

\* the messages the handler gives to the injection for the request it holds:
\* those of the body, without the system-role messages when it was rewritten
MessagesAtInjection ==
    IF ~DeclaresPersona(request) /\ request.has_messages
    THEN FilterSeq(request.messages, IsNotSystemMessage)
    ELSE request.messages

BlocksOf(content) ==
    IF content.isString THEN <<TextBlock(content.str)>> ELSE content.blocks

HasThinkingAlready(msg) == ~msg.content.isString /\ hasThinking(msg.content.blocks)

\* C37: between the request and its dispatch nothing but the injection adds a
\* thinking block to a message, and the injection changes nothing else.  The
\* messages given to fetch are the messages given to the injection, in their
\* order; user messages and assistant messages that already hold a thinking
\* block are unchanged; any other assistant message is unchanged or is one
\* cached thinking block followed by its original content (a string content
\* as the text block of the string).
C37_InjectionOnlyPrepends ==
    outcome.kind = "dispatched"
    => /\ Len(outcome.messages) = Len(MessagesAtInjection)
       /\ \A i \in 1..Len(MessagesAtInjection) :
             LET before == MessagesAtInjection[i]
                 after == outcome.messages[i]
             IN /\ after.role = before.role
                /\ (before.role # "assistant" \/ HasThinkingAlready(before))
                   => after = before
                /\ (before.role = "assistant" /\ ~HasThinkingAlready(before))
                   => \/ after = before
                      \/ /\ ~after.content.isString
                         /\ Len(after.content.blocks) = Len(BlocksOf(before.content)) + 1
                         /\ after.content.blocks[1] = EarlierThinking
                         /\ Tail(after.content.blocks) = BlocksOf(before.content)

\* a history of two assistant turns, one a string and one a block sequence,
\* was dispatched with the cached block in front of each
C37_Witness ==
    /\ outcome.kind = "dispatched"
    /\ outcome.injectedCount = 2
    /\ \E i \in 1..Len(MessagesAtInjection) :
          /\ MessagesAtInjection[i].role = "assistant"
          /\ MessagesAtInjection[i].content.isString
          /\ outcome.messages[i].content.blocks
               = <<EarlierThinking, TextBlock(MessagesAtInjection[i].content.str)>>
    /\ \E i \in 1..Len(request.messages) : request.messages[i].role = "system"

\* C40: the injection runs for every request with a non-empty list of
\* messages, whether or not the variant enables thinking, and is not undone:
\* every assistant message without a thinking block whose content has an
\* entry in the local tier once the injection ran (an entry read from the
\* persistent tier is written back to it) is given to fetch with that block
\* in front, also when the body is sent without the thinking parameter.
C40_InjectionNotUndone ==
    outcome.kind = "dispatched"
    => /\ outcome.injected = (MessagesAtInjection # <<>>)
       /\ Len(outcome.messages) = Len(MessagesAtInjection)
       /\ \A i \in 1..Len(MessagesAtInjection) :
             LET before == MessagesAtInjection[i]
             IN (/\ before.role = "assistant"
                 /\ ~HasThinkingAlready(before)
                 /\ MapHas(memoryCache, generateCacheKey(before.content)))
                => /\ ~outcome.messages[i].content.isString
                   /\ outcome.messages[i].content.blocks
                        = <<MapGet(memoryCache, generateCacheKey(before.content)).thinkingBlock>>
                          \o BlocksOf(before.content)

\* a request for a variant without thinking was dispatched with an injected
\* block
C40_Witness ==
    /\ outcome.kind = "dispatched"
    /\ ~resolveModelVariant(request.model).thinking.enabled
    /\ ~outcome.thinking.enabled
    /\ outcome.injectedCount >= 1
    /\ \E i \in 1..Len(outcome.messages) :
          /\ ~outcome.messages[i].content.isString
          /\ hasThinking(outcome.messages[i].content.blocks)
          /\ ~HasThinkingAlready(MessagesAtInjection[i])

\* a request for a thinking variant was sent without thinking, with an
\* injected block
C40_WitnessDowngraded ==
    /\ outcome.kind = "dispatched"
    /\ resolveModelVariant(request.model).thinking.enabled
    /\ ~outcome.thinking.enabled
    /\ outcome.injectedCount >= 1

-----------------------------------------------------------------------------
(* Properties of a refresh that fails, and of logout                       *)

\* caller c is inside refreshToken
InRefresh(c) == calls[c].at \in {"fetch", "set", "writeFile", "opened"}

\* a chat request that passes the API key check and the gateway
PlainChatRequest ==
    Request(ThinkingModel, TRUE, <<>>, FALSE, "/v1/chat/completions",
            [has |-> FALSE, blocks |-> <<>>], [has |-> TRUE, list |-> <<UserMessage>>],
            "undefined", 0)

\* C33: a refresh that fails (the token endpoint answers with a status that
\* is not 2xx or the fetch fails, or the write to the store fails) returns
\* none from getAccessToken, so that the handler answers 401 without calling
\* fetch, and leaves the store holding the credential the call read (when no
\* other call has written to the store).
C33_FailedRefresh ==
    [][\A c \in Callers :
         (InRefresh(c) /\ calls'[c].at = "done" /\ calls'[c].error # "") =>
            /\ calls'[c].result = NoToken
            /\ LET answer == HandleRequest(PlainChatRequest, <<>>, calls'[c].result,
                                           <<>>, <<>>, FALSE, TRUE).outcome
               IN answer.kind = "no_token" /\ answer.status = 401
            /\ RefreshesAlone(c) => get(storage') = calls[c].credentials
       ]_vars

\* C36: once logout has removed the credential, every getAccessToken call
\* that starts returns none at once, a refresh that was in flight during the
\* logout having created no credential.
C36_NoneAfterLogout ==
    [][\A c \in Callers :
         (pc = "loggedOut" /\ calls[c].at = "idle" /\ calls'[c].at # "idle") =>
            calls'[c].at = "done" /\ calls'[c].result = NoToken
       ]_vars

-----------------------------------------------------------------------------
(* Properties of the events the translator ignores                         *)

KnownTypes ==
    { "message_start", "content_block_start", "content_block_delta",
      "content_block_stop", "message_delta", "message_stop" }

IsIgnored(e) == e.type \notin KnownTypes

RECURSIVE ProcessEvents(_, _, _)
\* processChunk called for the line of each event in turn, from state st
ProcessEvents(st, events, results) ==
    IF events = <<>> THEN [state |-> st, results |-> results]
    ELSE CHOOSE rest \in { ProcessEvents(r.state, Tail(events), results \o r.results) :
                             r \in { processChunk(st, Serialize(Head(events))) } } : TRUE

\* the stream without its pings and its events of unknown types
WithoutIgnored == FilterSeq(sentEvents, LAMBDA e : ~IsIgnored(e))

\* C35: pings and events of unknown types are ignored: the output and the
\* tool-call trackers, the line buffer, the accumulated text and the
\* in-progress thinking block are, after every event of the stream, what
\* they are for the stream without these events.
C35_IgnoredEvents ==
    pc = "metering" =>
        LET alone == ProcessEvents(createConverterState(originalModel),
                                   WithoutIgnored, <<>>)
        IN /\ out = alone.results
           /\ state.toolCallsTracker = alone.state.toolCallsTracker
           /\ state.lineBuffer = alone.state.lineBuffer
           /\ state.accumulatedText = alone.state.accumulatedText
           /\ state.thinkingBlock = alone.state.thinkingBlock
           /\ state.inThinkingBlock = alone.state.inThinkingBlock

-----------------------------------------------------------------------------
(* Properties of the capture of thinking blocks                            *)

IsThinkingStart(e) ==
    e.type = "content_block_start" /\ e.cb_type \in {"thinking", "redacted_thinking"}

\* the positions in the stream of the starts of thinking blocks
ThinkingStarts == { i \in 1..Len(sentEvents) : IsThinkingStart(sentEvents[i]) }

LastThinkingStart == CHOOSE i \in ThinkingStarts : \A j \in ThinkingStarts : j <= i

\* the block the upstream streamed from position i on: the fields of its
\* start and the deltas that followed
StreamedBlockFrom(i) ==
    LET after == SubSeq(sentEvents, i + 1, Len(sentEvents))
    IN ThinkingBlock(
           sentEvents[i].cb_thinking \o Concat([k \in 1..Len(after) |-> after[k].d_thinking]),
           sentEvents[i].cb_signature \o Concat([k \in 1..Len(after) |-> after[k].d_signature]))

IsEmptyThinking(b) == b.thinking = <<>> /\ b.signature = <<>>

\* C38: after a stream with any number of thinking blocks, the captured
\* block, which is the one written to the cache, is the last one the upstream
\* started; when that block has neither thinking text nor signature (a
\* redacted_thinking block), or the stream had no thinking block, no block
\* is captured and none is cached.
C38_LastThinkingBlockCaptured ==
    pc = "captured" =>
        LET captured == getThinkingBlockFromState(state)
            key == generateCacheKey(ArrayContent(<<TextBlock(state.accumulatedText)>>))
        IN IF ThinkingStarts = {} \/ IsEmptyThinking(StreamedBlockFrom(LastThinkingStart))
           THEN ~captured.present /\ memoryCache = <<>>
           ELSE /\ captured.present
                /\ captured.block = StreamedBlockFrom(LastThinkingStart)
                /\ Len(memoryCache) = 1
                /\ MapHas(memoryCache, key)
                /\ MapGet(memoryCache, key).thinkingBlock
                      = StreamedBlockFrom(LastThinkingStart)

\* a stream of two thinking blocks of different content is captured
C38_Witness ==
    /\ pc = "captured"
    /\ Cardinality(ThinkingStarts) = 2
    /\ getThinkingBlockFromState(state).present
    /\ \E i \in ThinkingStarts :
          /\ i # LastThinkingStart
          /\ sentEvents[i].cb_thinking # sentEvents[LastThinkingStart].cb_thinking
    /\ memoryCache # <<>>

\* a thinking block followed by a redacted_thinking block: nothing is captured
C38_WitnessRedacted ==
    /\ pc = "captured"
    /\ Cardinality(ThinkingStarts) = 2
    /\ sentEvents[LastThinkingStart].cb_type = "redacted_thinking"
    /\ \E i \in ThinkingStarts : /\ sentEvents[i].cb_type = "thinking"
                                  /\ sentEvents[i].cb_thinking # <<>>
    /\ ~getThinkingBlockFromState(state).present

-----------------------------------------------------------------------------
(* Properties of connections that stream at once                           *)

\* what connection c gives when its stream callback runs alone on what c
\* has read
Alone(c) == processChunk(createConverterState(originalModel[c]), consumed[c])

\* C32: whatever the order in which the reads of two connections interleave,
\* the output of each and the thinking block each has captured are those of
\* the same response processed alone.
C32_ConverterStatePerRequest ==
    pc = "concurrent" =>
        \A c \in Connections :
            /\ out[c] = Alone(c).results
            /\ getThinkingBlockFromState(state[c])
                  = getThinkingBlockFromState(Alone(c).state)
            /\ state[c] = Alone(c).state

\* both connections are in the middle of their streams, one of them in the
\* middle of a line, one with a thinking block captured and one with a tool
\* call tracked
C32_Witness ==
    /\ pc = "concurrent"
    /\ \A c \in Connections : wire[c] # <<>> /\ out[c] # <<>>
    /\ state[1].lineBuffer # <<>>
    /\ getThinkingBlockFromState(state[1]).present
    /\ ~getThinkingBlockFromState(state[2]).present
    /\ state[2].toolCallsTracker # <<>>

====
